---------------------------- MODULE Spec2Model ----------------------------
(***************************************************************************)
(* Verification model of the lava-runner platformer core:                  *)
(*   - EnhancedFSM, the locomotion state machine, and the state classes    *)
(*     (IdleState .. DeadState) driving the CharacterController;           *)
(*   - the energy ("sprint") pool of the CharacterController;              *)
(*   - Game.updateTrack / generateSegment / despawnSegment, the sliding    *)
(*     window of track segments and the SegmentPool.                       *)
(*                                                                         *)
(* Units.  Time is counted in fixed physics ticks of CONFIG.physics.       *)
(* timestep = 1/60 s.  Energy is counted in sixths of an energy point, so  *)
(* that the per-tick charge drain (50/60 = 5/6) and the per-tick regen     *)
(* (60/60 = 1) are integers.  Velocities are exact rationals [n, d] in      *)
(* world units per second.                                                 *)
(***************************************************************************)
EXTENDS Integers, Sequences, FiniteSets, TLC

VARIABLES
    fsm,    \* EnhancedFSM: _currentKey and the bounded _stateHistory
    cur,    \* fields of the current State instance (ChargeState, DashState)
    pc,     \* CharacterController: sprint, health, grounding and timers
    body,   \* the player's rigid body: linear velocity
    obs,    \* what the last handler run called, signalled and launched
    track,  \* Game: trackSegments, playerSegmentIndex, SegmentPool, score
    ticks   \* number of fixed steps taken so far

vars == <<fsm, cur, pc, body, obs, track, ticks>>

Min(a, b) == IF a < b THEN a ELSE b
Max(a, b) == IF a > b THEN a ELSE b

(***************************************************************************)
(* STATES and the transition table of EnhancedFSM                          *)
(***************************************************************************)
IDLE   == "idle"
WALK   == "walk"
CHARGE == "charge"
LEAP   == "leap"
FALL   == "fall"
DASH   == "dash"
DEAD   == "dead"
NoState == "none"     \* _currentKey === null before the first transition

STATES == {IDLE, WALK, CHARGE, LEAP, FALL, DASH, DEAD}

\* A key no state class was registered under (addState was never called for it).
UnregisteredKey == "run"

\* CharacterController._setupFSM registers exactly the seven enum keys.
registeredStates == STATES

validTransitionsDeadTerminal ==
    [s \in STATES |->
        CASE s = IDLE   -> {WALK, CHARGE, FALL, DASH, DEAD}
          [] s = WALK   -> {IDLE, CHARGE, FALL, DASH, DEAD}
          [] s = CHARGE -> {LEAP, IDLE, FALL, DEAD}
          [] s = LEAP   -> {FALL, DASH, IDLE, DEAD}
          [] s = FALL   -> {IDLE, WALK, DASH, DEAD}
          [] s = DASH   -> {IDLE, WALK, LEAP, FALL, DEAD}
          [] s = DEAD   -> {}]

validTransitions ==
    [s \in STATES |->
        CASE s = IDLE   -> {WALK, CHARGE, FALL, DASH, DEAD}
          [] s = WALK   -> {IDLE, CHARGE, FALL, DASH, DEAD}
          [] s = CHARGE -> {LEAP, IDLE, FALL, DEAD}
          [] s = LEAP   -> {FALL, DASH, IDLE, DEAD}
          [] s = FALL   -> {IDLE, WALK, DASH, DEAD}
          [] s = DASH   -> {IDLE, WALK, LEAP, FALL, DEAD}
          [] s = DEAD   -> {IDLE}]

maxHistory == 10

hasStateClassAny(name) == TRUE

\* const stateClass = this._states[name]; if (!stateClass) return false
hasStateClass(name) == name \in registeredStates

canTransitionKeyAlways(fromKey, toKey) == TRUE

\* _canTransitionKey: allowed = this._validTransitions[fromKey] || []
canTransitionKey(fromKey, toKey) ==
    IF fromKey = NoState THEN TRUE
    ELSE IF fromKey \in DOMAIN validTransitions
         THEN toKey \in validTransitions[fromKey]
         ELSE FALSE

\* _stateHistory is kept as its length and its newest entry: the only
\* mutation the code performs is push followed by shift when over _maxHistory.
historyPush(f, name) ==
    [f EXCEPT !.historyLen = IF f.historyLen + 1 > maxHistory
                                THEN f.historyLen ELSE f.historyLen + 1,
              !.historyLast = name]

\* Whether exit() or enter() of a state class throws during a transition:
\* "exit" - exit() of the current state throws; "enter" - enter() of the new
\* state throws when called with params and again when setState retries
\* it without; "enterOnce" - enter() throws when called with params and
\* ends normally on the retry.  The constructors of the state classes only
\* store the controller.
FaultKinds == {"none", "exit", "enter", "enterOnce"}

recoverToSafeStateKeepsKey(f) == f

\* _recoverToSafeState: exit whatever is current, then install a fresh
\* IdleState.  The key is Idle before IdleState.enter runs, so it is Idle
\* even when that call throws as well.
recoverToSafeState(f) == [f EXCEPT !.key = IDLE]

(***************************************************************************)
(* setState(name, params).  The result records the new FSM, the returned   *)
(* boolean and which callbacks ran:                                        *)
(*   exited  - exit() was invoked on the state that was current,           *)
(*   entered - key of the state instance whose enter() ran last ("none"    *)
(*             if no instance was constructed),                            *)
(*   pushed  - a record was appended to _stateHistory.                     *)
(***************************************************************************)
setState(f, name, fault) ==
    IF ~hasStateClass(name)
    THEN [fsm |-> f, ret |-> FALSE, exited |-> FALSE, entered |-> NoState, pushed |-> FALSE]
    ELSE IF f.key = name
    THEN [fsm |-> f, ret |-> FALSE, exited |-> FALSE, entered |-> NoState, pushed |-> FALSE]
    ELSE IF ~canTransitionKey(f.key, name)
    THEN [fsm |-> f, ret |-> FALSE, exited |-> FALSE, entered |-> NoState, pushed |-> FALSE]
    ELSE IF fault = "exit" /\ f.key # NoState
    THEN [fsm |-> recoverToSafeState(f), ret |-> FALSE, exited |-> TRUE,
          entered |-> IDLE, pushed |-> FALSE]
    ELSE IF fault = "enter"
    THEN [fsm |-> recoverToSafeState([f EXCEPT !.key = name]), ret |-> FALSE,
          exited |-> (f.key # NoState), entered |-> IDLE, pushed |-> FALSE]
    \* "enterOnce": the retry of enter ends normally, as does a call
    \* without fault
    ELSE [fsm |-> historyPush([f EXCEPT !.key = name], name), ret |-> TRUE,
          exited |-> (f.key # NoState), entered |-> name, pushed |-> TRUE]

\* new EnhancedFSM(controller): no current state, empty history.
newFSM == [key |-> NoState, historyLen |-> 0, historyLast |-> NoState]

(***************************************************************************)
(* Exact rational velocities                                               *)
(***************************************************************************)
R(k) == [n |-> k, d |-> 1]
RNorm(a) == IF a.n % a.d = 0 THEN [n |-> a.n \div a.d, d |-> 1] ELSE a
RAdd(a, b) == RNorm([n |-> a.n * b.d + b.n * a.d, d |-> a.d * b.d])
RLess(a, b) == a.n * b.d < b.n * a.d
RLeq(a, b) == a.n * b.d <= b.n * a.d
REq(a, b) == a.n * b.d = b.n * a.d
RMax(a, b) == IF RLess(a, b) THEN b ELSE a
RMul(a, b) == RNorm([n |-> a.n * b.n, d |-> a.d * b.d])

(***************************************************************************)
(* CONFIG.  Energy amounts are in sixths of a point, durations in ticks.   *)
(* A duration in ticks is the number of additions of dt = 1/60 (IEEE       *)
(* double) after which the accumulated time first passes the configured    *)
(* threshold: 13 for 0.2 s (twelve additions give 0.19999999999999998),    *)
(* 91 for 1.5 s, 45 for 0.75 s; 0.15 - 9 * dt is still positive, so the    *)
(* coyote window closes on the tenth decrement.                            *)
(***************************************************************************)
ticksPerSecond == 60
maxHealth == 100
maxSprint == 100 * 6
sprintRegenPerTick == (60 * 6) \div 60
sprintRegenDelayTicks == 45
quickJumpCost == 5 * 6
quickJumpVerticalForce == 11
tapThresholdTicks == 13
staminaDrainPerTick == (50 * 6) \div 60
maxChargeTicks == 91
maxChargeDrain == (50 * 6 * 3) \div 2
minChargeEnergy == 5 * 6
minVertical == 6
maxVertical == 20
minForward == 6
maxForward == 30
coyoteTicks == 10
minGroundTicks == 3
minDashEnergy == 10 * 6
dashDurationTicks == 13
downwardVelocityCap == R(-5)
spikeDamage == 25

\* groundTime only ever meets the comparisons "> minGroundTime" and
\* "> groundTimeThreshold - FLOAT_EPSILON": it is counted up to this cap.
GroundTimeCap == 4

(***************************************************************************)
(* Records                                                                 *)
(***************************************************************************)
zeroVel == [x |-> R(0), y |-> R(0)]

\* Fields a State instance has right after "new stateClass(controller)".
freshCur ==
    [chargeTime |-> 0, energyConsumed |-> 0, startEnergy |-> 0,
     maxPossibleEnergy |-> 0, startedGrounded |-> FALSE,
     dashTimer |-> 0, staminaUsed |-> 0]

noCall ==
    [name |-> NoState, from |-> NoState, fault |-> "none", ret |-> FALSE,
     exited |-> FALSE, entered |-> NoState, pushed |-> FALSE]

noLaunch ==
    [kind |-> "none", velBefore |-> zeroVel, velAfter |-> zeroVel,
     startEnergy |-> 0, refunded |-> 0, energyConsumed |-> 0,
     maxPossibleEnergy |-> 0, chargeTime |-> 0,
     platform |-> FALSE, platformVy |-> R(0), vY |-> R(0), hF |-> R(0)]

noGen ==
    [ran |-> FALSE, player |-> 0, lenBefore |-> 0, lastBefore |-> -1,
     highBefore |-> -1, indices |-> << >>, lenGenerated |-> 0, despawned |-> 0,
     timersCleared |-> 0]

\* What a lava check leaves: whether the player's bottom counted as
\* contact, and the reason die() was given.
noLava == [checked |-> FALSE, hit |-> FALSE, reason |-> "none"]

\* What a crumble timer callback leaves: the index it was started under, and
\* whether the segment it was started on had left the track.
noCrumble == [fired |-> -1, stale |-> FALSE]

noTap == [held |-> FALSE, signals |-> 0]

\* What a takeDamage call leaves: the amount it was given and the health it
\* found.
noHurt == [amount |-> 0, healthBefore |-> 0]

\* What animate() leaves: whether it ran, whether it found the game paused,
\* the fixed ticks it ran, whether it advanced the moving platform, and the
\* state, accumulator and Q press it started from.
noFrame ==
    [ran |-> FALSE, paused |-> FALSE, steps |-> 0, advanced |-> FALSE,
     from |-> "", accBefore |-> 0, leftover |-> FALSE, clampedDt |-> 0,
     dashes |-> 0, lavaDeath |-> FALSE]

\* What a respawn() call leaves: whether it ran or was turned away by the
\* re-entrancy guard, the state it started from, whether health and energy
\* were below their maximum.
\* The zone object a damage check was made for, and whether the player
\* overlapped its spikes.
noZoneCheck == [id |-> 0, hit |-> FALSE]

\* What the hazard checks of one frame found: the spike zones the player
\* overlapped, whether the player's bottom was at the lava surface, and
\* whether it was at the rising lava.
noHazards == [zones |-> 0, lava |-> FALSE, rising |-> FALSE]

noRespawn ==
    [ran |-> FALSE, blocked |-> FALSE, from |-> NoState, hurt |-> FALSE,
     tired |-> FALSE]

noObs ==
    [call |-> noCall, insufficientQuickJump |-> 0,
     insufficientDash |-> 0, launch |-> noLaunch, gen |-> noGen, tap |-> noTap,
     crumble |-> noCrumble, damage |-> 0, lava |-> noLava,
     respawn |-> noRespawn, hurt |-> noHurt, frame |-> noFrame,
     dashCalled |-> FALSE, regen |-> 0, zone |-> noZoneCheck,
     hazards |-> noHazards]

\* The observation a handler starts from: everything but the running
\* account of the current Space press is cleared.
startOp(w) == [w EXCEPT !.obs = [noObs EXCEPT !.tap = w.obs.tap]]

(***************************************************************************)
(* CharacterController: energy                                             *)
(***************************************************************************)
\* pc.sinceConsume is not a field of the controller: it is the number of
\* fixed updates whose dt has elapsed since the last consumeStamina call,
\* counted up to sprintRegenDelayTicks.
consumeStamina(p, amount) ==
    [p EXCEPT !.sprint = Max(0, @ - amount), !.sprintRegenTimer = 0,
              !.sinceConsume = 0]

\* The dt of one fixed update has elapsed.
tickElapsed(w) ==
    [w EXCEPT !.pc.sinceConsume = Min(@ + 1, sprintRegenDelayTicks)]

updateSprintNoDelay(p) ==
    IF p.isGrounded
    THEN LET timer == Min(p.sprintRegenTimer + 1, sprintRegenDelayTicks)
             added == Min(maxSprint - p.sprint, sprintRegenPerTick)
         IN  [p EXCEPT !.sprintRegenTimer = timer,
                       !.sprint = Min(maxSprint, @ + added)]
    ELSE p

updateSprintNoCap(p) ==
    IF p.isGrounded
    THEN LET timer == Min(p.sprintRegenTimer + 1, sprintRegenDelayTicks)
         IN  IF timer >= sprintRegenDelayTicks
             THEN [p EXCEPT !.sprintRegenTimer = timer,
                            !.sprint = @ + sprintRegenPerTick]
             ELSE [p EXCEPT !.sprintRegenTimer = timer]
    ELSE p

\* sprintRegenTimer only ever meets ">= sprintRegenDelay": it is counted up
\* to that threshold.
updateSprint(p) ==
    IF p.isGrounded
    THEN LET timer == Min(p.sprintRegenTimer + 1, sprintRegenDelayTicks)
         IN  IF timer >= sprintRegenDelayTicks
             THEN LET added == Min(maxSprint - p.sprint, sprintRegenPerTick)
                  IN  [p EXCEPT !.sprintRegenTimer = timer,
                                !.sprint = Min(maxSprint, @ + added)]
             ELSE [p EXCEPT !.sprintRegenTimer = timer]
    ELSE p

canBeginCharge(p) ==
    IF p.sprint < quickJumpCost THEN FALSE
    ELSE (p.isGrounded /\ p.groundTime > minGroundTicks) \/ p.coyoteTime > 0

(***************************************************************************)
(* checkGrounded.  ground is the outcome of the shape cast:                *)
(*   hit      - the cast hit a collider,                                   *)
(*   falling  - the hit segment is a FALLING dynamic crumble platform,     *)
(*   relSmall - |player vy - platform vy| < 3.0.                           *)
(***************************************************************************)
GroundOutcomes ==
    { [hit |-> FALSE, falling |-> FALSE, relSmall |-> FALSE],
      [hit |-> TRUE,  falling |-> FALSE, relSmall |-> FALSE],
      [hit |-> TRUE,  falling |-> TRUE,  relSmall |-> TRUE],
      [hit |-> TRUE,  falling |-> TRUE,  relSmall |-> FALSE] }

checkGrounded(p, ground) ==
    LET was == p.isGrounded
        landed == ground.hit /\ ~was /\ (~ground.falling \/ ground.relSmall)
    IN  [p EXCEPT !.isGrounded = ground.hit,
                  !.onFallingPlatform = ground.hit /\ ground.falling,
                  !.groundTime = IF landed THEN 0 ELSE @,
                  !.coyoteTime = IF was /\ ~ground.hit THEN coyoteTicks ELSE @]

(***************************************************************************)
(* Input of one fixed step, as sampled by the EnhancedInputManager and the *)
(* physics world:                                                          *)
(*   space  - keys['Space'],   q - wasPressed('KeyQ'),                     *)
(*   move   - which of W / S is held, or camera rotation without keys,     *)
(*   ground - outcome of the ground shape cast,                            *)
(*   vy     - vertical velocity of the body after world.step(),            *)
(*   mvx    - forward speed the ground / air movement blend arrives at,    *)
(*   platformVy - vertical velocity of the falling platform stood on.      *)
(* The horizontal velocity is kept as its component along the facing       *)
(* direction of the model.                                                 *)
(***************************************************************************)
MoveKinds == {"none", "w", "s", "ws", "rot"}
MoveSamples == {"none", "w"}
keyW(in) == in.move \in {"w", "ws"}
keyS(in) == in.move \in {"s", "ws"}
\* getMovementInput(input).lengthSq() > 0.01: W and S cancel each other
hasMoveInput(in) == in.move \in {"w", "s"}
hasRotation(in) == in.move = "rot"

(***************************************************************************)
(* State classes: construction and enter()                                 *)
(***************************************************************************)
\* DashState.enter + _executeDash
dashEnter(w, in, staminaUsed) ==
    LET used == Max(minDashEnergy, Min(staminaUsed, maxSprint))
        force == RNorm([n |-> used * 3, d |-> 6 * 10])
        signed == IF keyS(in) /\ ~keyW(in) THEN [n |-> 0 - force.n, d |-> force.d]
                  ELSE force
    IN  [w EXCEPT !.cur = [freshCur EXCEPT !.staminaUsed = used],
                  !.body = [x |-> signed,
                            y |-> IF w.pc.isGrounded THEN R(0)
                                  ELSE RMax(w.body.y, downwardVelocityCap)]]

\* ChargeState.enter
chargeEnter(w) ==
    [w EXCEPT !.cur = [freshCur EXCEPT
                          !.startedGrounded = w.pc.isGrounded,
                          !.startEnergy = w.pc.sprint,
                          !.maxPossibleEnergy = Min(w.pc.sprint, maxChargeDrain)]]

\* fsm.setState(name, params) as the controller and the state classes call
\* it: no callback of the seven state classes throws.
changeState(w, name, in, staminaUsed) ==
    LET r == setState(w.fsm, name, "none")
        w1 == [w EXCEPT !.fsm = r.fsm]
    IN  IF ~r.ret THEN w
        ELSE IF name = CHARGE THEN chargeEnter(w1)
        ELSE IF name = DASH THEN dashEnter(w1, in, staminaUsed)
        ELSE [w1 EXCEPT !.cur = freshCur]

performDashUnchecked(w, in) ==
    LET staminaToConsume == w.pc.sprint
    IN  changeState([w EXCEPT !.pc = consumeStamina(w.pc, staminaToConsume),
                              !.obs.dashCalled = TRUE],
                    DASH, in, staminaToConsume)

\* performDash(); showEnergyInsufficient('Dash') is counted in
\* obs.insufficientDash, and obs.dashCalled records the call.
performDash(w, in) ==
    IF w.pc.sprint < minDashEnergy
    THEN [w EXCEPT !.obs.insufficientDash = @ + 1, !.obs.dashCalled = TRUE]
    ELSE LET staminaToConsume == w.pc.sprint
         IN  changeState([w EXCEPT !.pc = consumeStamina(w.pc, staminaToConsume),
                                   !.obs.dashCalled = TRUE],
                         DASH, in, staminaToConsume)

\* die(reason).  pc.deaths is not a field of the controller: it counts the
\* die() calls since the last level setup (respawn, restart, level start)
\* that brought the FSM back to Idle; more than two are counted as two.
die(w, in) == changeState([w EXCEPT !.pc.deaths = Min(@ + 1, 2)], DEAD, in, 0)

takeDamageNoFloor(w, in, amount) ==
    IF w.fsm.key = DEAD THEN w
    ELSE LET health == w.pc.health - amount
             w1 == [w EXCEPT !.pc.health = health]
         IN  IF health <= 0 THEN die(w1, in) ELSE w1

\* takeDamage(amount)
takeDamage(w, in, amount) ==
    IF w.fsm.key = DEAD THEN w
    ELSE LET health == Max(0, w.pc.health - amount)
             w1 == [w EXCEPT !.pc.health = health]
         IN  IF health <= 0 THEN die(w1, in) ELSE w1

teleportTo(w, in) ==
    changeState([w EXCEPT !.body = zeroVel, !.pc.deaths = 0], IDLE, in, 0)

(***************************************************************************)
(* ChargeState                                                             *)
(***************************************************************************)
refundNothing(w) == w

\* this.controller.sprint = Math.min(maxSprint, this.controller.sprint + energyConsumed)
refund(w) == [w EXCEPT !.pc.sprint = Min(maxSprint, @ + w.cur.energyConsumed)]

chargePctUnclamped(energyConsumed, maxPossibleEnergy) ==
    IF maxPossibleEnergy > 0
    THEN RNorm([n |-> energyConsumed, d |-> maxPossibleEnergy])
    ELSE R(0)

\* pct = maxPossibleEnergy > 0 ? Math.min(1, energyConsumed / maxPossibleEnergy) : 0
chargePct(energyConsumed, maxPossibleEnergy) ==
    IF maxPossibleEnergy > 0
    THEN IF energyConsumed > maxPossibleEnergy THEN R(1)
         ELSE RNorm([n |-> energyConsumed, d |-> maxPossibleEnergy])
    ELSE R(0)

launchVertical(pct) == RAdd(R(minVertical), RMul(R(maxVertical - minVertical), pct))
launchForward(pct) == RAdd(R(minForward), RMul(R(maxForward - minForward), pct))

\* What launch() leaves in the observation: the velocity it read and the one
\* it set, the energy figures of the ChargeState instance it ran on.
launchRecord(w, kind, refunded, velAfter, in, vY, hF) ==
    [kind |-> kind, velBefore |-> w.body, velAfter |-> velAfter,
     startEnergy |-> w.cur.startEnergy, refunded |-> refunded,
     energyConsumed |-> w.cur.energyConsumed,
     maxPossibleEnergy |-> w.cur.maxPossibleEnergy,
     chargeTime |-> w.cur.chargeTime,
     platform |-> w.pc.onFallingPlatform,
     platformVy |-> IF w.pc.onFallingPlatform THEN in.platformVy ELSE R(0),
     vY |-> vY, hF |-> hF]

quickJumpVelocityAdded(w, in) ==
    [x |-> w.body.x, y |-> RAdd(w.body.y, R(quickJumpVerticalForce))]

\* setLinvel of the quick jump: relative to the platform when standing on a
\* falling crumble platform, the fixed vertical force otherwise.
quickJumpVelocity(w, in) ==
    [x |-> w.body.x,
     y |-> IF w.pc.onFallingPlatform
           THEN RAdd(in.platformVy, R(quickJumpVerticalForce))
           ELSE R(quickJumpVerticalForce)]

chargedVelocity(w, in, vY, hF) ==
    [x |-> RAdd(w.body.x, hF),
     y |-> IF w.pc.onFallingPlatform THEN RAdd(in.platformVy, vY) ELSE vY]

launch(w, in) ==
    IF w.cur.chargeTime < tapThresholdTicks
    THEN LET w1 == refund(w)
         IN  IF w1.pc.sprint >= quickJumpCost
             THEN LET vel == quickJumpVelocity(w1, in)
                      w2 == [w1 EXCEPT !.pc = consumeStamina(w1.pc, quickJumpCost),
                                       !.body = vel,
                                       !.obs.launch = launchRecord(w1, "quick",
                                           w1.pc.sprint, vel, in, R(0), R(0))]
                  IN  changeState(w2, LEAP, in, 0)
             ELSE changeState([w1 EXCEPT !.obs.insufficientQuickJump = @ + 1,
                                         !.obs.launch = launchRecord(w1, "quickFail",
                                             w1.pc.sprint, w1.body, in, R(0), R(0))],
                              IF w1.pc.isGrounded THEN IDLE ELSE FALL, in, 0)
    ELSE IF w.cur.energyConsumed > 0 /\ w.cur.energyConsumed < minChargeEnergy
    THEN LET w1 == refund(w)
         IN  changeState([w1 EXCEPT !.obs.launch = launchRecord(w1, "fizzle",
                                        w1.pc.sprint, w1.body, in, R(0), R(0))],
                         IDLE, in, 0)
    ELSE LET pct == chargePct(w.cur.energyConsumed, w.cur.maxPossibleEnergy)
             vY == launchVertical(pct)
             hF == launchForward(pct)
             vel == chargedVelocity(w, in, vY, hF)
         IN  changeState([w EXCEPT !.body = vel,
                                   !.obs.launch = launchRecord(w, "charged",
                                       w.pc.sprint, vel, in, vY, hF)],
                         LEAP, in, 0)

cancelChargeKeepsDrain(w, in) ==
    changeState([w EXCEPT !.obs.launch = launchRecord(w, "cancel",
                              w.pc.sprint, w.body, in, R(0), R(0))],
                FALL, in, 0)

\* Refund and fall: the two cancellation branches of ChargeState.update.
cancelCharge(w, in) ==
    LET w1 == IF w.cur.energyConsumed > 0 THEN refund(w) ELSE w
    IN  changeState([w1 EXCEPT !.obs.launch = launchRecord(w1, "cancel",
                                   w1.pc.sprint, w1.body, in, R(0), R(0))],
                    FALL, in, 0)

chargeUpdateHoldsOn(w, in) ==
    IF w.cur.startedGrounded /\ ~w.pc.isGrounded /\ w.pc.coyoteTime <= 0
    THEN cancelCharge(w, in)
    ELSE IF ~in.space THEN launch(w, in)
    ELSE IF ~w.pc.isGrounded /\ w.pc.coyoteTime <= 0 /\ w.cur.chargeTime = 0
    THEN cancelCharge(w, in)
    ELSE IF w.cur.chargeTime < maxChargeTicks /\ w.pc.sprint > 0
    THEN [w EXCEPT !.pc = consumeStamina(w.pc, Min(staminaDrainPerTick, w.pc.sprint)),
                   !.cur.energyConsumed = @ + Min(staminaDrainPerTick, w.pc.sprint),
                   !.cur.chargeTime = @ + 1]
    ELSE w

\* ChargeState.update
chargeUpdate(w, in) ==
    IF w.cur.startedGrounded /\ ~w.pc.isGrounded /\ w.pc.coyoteTime <= 0
    THEN cancelCharge(w, in)
    ELSE IF ~in.space THEN launch(w, in)
    ELSE IF ~w.pc.isGrounded /\ w.pc.coyoteTime <= 0 /\ w.cur.chargeTime = 0
    THEN cancelCharge(w, in)
    ELSE LET drains == w.cur.chargeTime < maxChargeTicks /\ w.pc.sprint > 0
             actual == Min(staminaDrainPerTick, w.pc.sprint)
             w1 == IF drains
                   THEN [w EXCEPT !.pc = consumeStamina(w.pc, actual),
                                  !.cur.energyConsumed = @ + actual,
                                  !.cur.chargeTime = @ + 1]
                   ELSE w
         IN  IF w1.pc.sprint <= 0 \/ w1.cur.chargeTime >= maxChargeTicks
             THEN launch(w1, in)
             ELSE w1

(***************************************************************************)
(* Idle, Walk, Leap, Fall, Dash, Dead: update(input, dt)                   *)
(***************************************************************************)
idleUpdate(w, in) ==
    IF in.q THEN performDash(w, in)
    ELSE IF canBeginCharge(w.pc) /\ in.space THEN changeState(w, CHARGE, in, 0)
    ELSE IF hasMoveInput(in) \/ hasRotation(in) THEN changeState(w, WALK, in, 0)
    ELSE w

walkUpdate(w, in) ==
    IF in.q THEN performDash(w, in)
    ELSE IF canBeginCharge(w.pc) /\ in.space THEN changeState(w, CHARGE, in, 0)
    ELSE IF ~(hasMoveInput(in) \/ hasRotation(in)) THEN changeState(w, IDLE, in, 0)
    ELSE w

leapUpdate(w, in) ==
    IF in.q THEN performDash(w, in)
    ELSE IF RLess(w.body.y, R(0)) THEN changeState(w, FALL, in, 0)
    ELSE w

\* groundTime > groundTimeThreshold - FLOAT_EPSILON, i.e. 0.05 s - 0.001 s
landedLongEnough(p) == p.groundTime * 1000 > (50 - 1) * ticksPerSecond

fallUpdate(w, in) ==
    IF in.q THEN performDash(w, in)
    ELSE IF w.pc.isGrounded /\ landedLongEnough(w.pc)
    THEN changeState(w, IF hasMoveInput(in) THEN WALK ELSE IDLE, in, 0)
    ELSE w

dashUpdateNoExit(w, in) == [w EXCEPT !.cur.dashTimer = @ + 1]

\* DashState.update
dashUpdate(w, in) ==
    LET w1 == [w EXCEPT !.cur.dashTimer = @ + 1]
    IN  IF w1.cur.dashTimer >= dashDurationTicks
        THEN IF ~w1.pc.isGrounded
             THEN changeState(w1, IF RLess(R(0), w1.body.y) THEN LEAP ELSE FALL, in, 0)
             ELSE changeState(w1, IF keyW(in) \/ keyS(in) THEN WALK ELSE IDLE, in, 0)
        ELSE w1

deadUpdate(w, in) == w

\* EnhancedFSM.update: dispatch to the current state instance.
fsmUpdate(w, in) ==
    CASE w.fsm.key = IDLE   -> idleUpdate(w, in)
      [] w.fsm.key = WALK   -> walkUpdate(w, in)
      [] w.fsm.key = CHARGE -> chargeUpdate(w, in)
      [] w.fsm.key = LEAP   -> leapUpdate(w, in)
      [] w.fsm.key = FALL   -> fallUpdate(w, in)
      [] w.fsm.key = DASH   -> dashUpdate(w, in)
      [] w.fsm.key = DEAD   -> deadUpdate(w, in)
      [] OTHER              -> w

(***************************************************************************)
(* CharacterController.fixedUpdate(dt) after world.step(): the body has    *)
(* the vertical velocity the physics step produced.                        *)
(***************************************************************************)
\* The running account of the current Space press, for the energy feedback.
tapAccount(w0, w1, in) ==
    [held |-> in.space,
     signals |-> (IF in.space /\ ~w0.obs.tap.held THEN 0 ELSE w0.obs.tap.signals)
                 + w1.obs.insufficientQuickJump]

\* fixedUpdate past fsm.update: movement and energy regeneration unless
\* charging or dashing; w0 is the world the update started from.
afterStateUpdate(w0, w2, in) ==
    LET moves == w2.fsm.key \notin {CHARGE, DASH}
        w3 == IF moves
              THEN [w2 EXCEPT !.body.x = in.mvx, !.pc = updateSprint(w2.pc)]
              ELSE w2
    IN  tickElapsed([w3 EXCEPT !.obs.tap = tapAccount(w0, w3, in),
                               !.obs.regen = w3.pc.sprint - w2.pc.sprint])

fixedUpdate(w, in) ==
    LET w0 == startOp(w)
    IN  IF w0.fsm.key = NoState THEN tickElapsed(w0)
        ELSE IF w0.fsm.key = DEAD
        THEN tickElapsed([deadUpdate(w0, in) EXCEPT
                             !.obs.tap = tapAccount(w0, w0, in)])
        ELSE
        LET p1 == [w0.pc EXCEPT !.coyoteTime = IF @ > 0 THEN @ - 1 ELSE @]
            p2 == checkGrounded(p1, in.ground)
            p3 == [p2 EXCEPT !.groundTime = IF p2.isGrounded
                                            THEN Min(@ + 1, GroundTimeCap) ELSE @]
        IN  \* the world before and after the state's update are each
            \* computed once
            CHOOSE w4 \in
                { afterStateUpdate(w0, w2, in) :
                     w2 \in { fsmUpdate(w1, in) :
                                 w1 \in {[w0 EXCEPT !.pc = p3,
                                                    !.body.y = in.vy]} } } : TRUE

processImmediateDashSkipped(w, in) == w

processImmediateDash(w, in) ==
    LET w0 == startOp(w)
    IN  IF in.q /\ w0.fsm.key \notin {CHARGE, DASH, DEAD, NoState}
        THEN performDash(w0, in)
        ELSE w

(***************************************************************************)
(* Game: track window.  A segment is the pooled object (id) and the index  *)
(* generateSegment gave it.  track.high is the highest index generated     *)
(* since the last resetGame (-1 if none): it is not a field of the game.   *)
(***************************************************************************)
segmentsToGenerateAhead == 8
segmentsToKeepBehind == 4
maxPoolSize == 20

\* this.CrumbleState
STABLE == "stable"
WARNING == "warning"
FALLING == "falling"
DESTROYED == "destroyed"
CrumbleStates == {STABLE, WARNING, FALLING, DESTROYED}

\* cfg.track.crumbleSafeBuffer ?? 2
crumbleSafeBuffer == 2

\* zone.cooldown = 1.0 in fixed steps: sixty subtractions of 1/60 bring the
\* double 1.0 to or below 0.
cooldownTicks == 60

\* A hazard zone as createSpikeRow makes it: cooldown 0.  sinceDamage is
\* the number of fixed steps from the step in which the zone last applied
\* damage to the coming one, counted up to cooldownTicks.
newZone == [cooldown |-> 0, sinceDamage |-> cooldownTicks]

\* movingPlatformConfig.pauseAtExtents = 1.5 s in advances of the platform:
\* _pause = Math.max(0, _pause - 1/60) leaves the double 1.5 above 0 after
\* ninety subtractions and at 0 after the ninety-first.
pauseSteps == 91

\* SegmentPool.resetSegment: the movement fields of a segment that moves
\* nowhere.  Lengths are in tenths of a unit; step is speed * timestep.
\* cur is the body's translation, mesh the position the mesh was given,
\* which is also the body's next kinematic translation.
noPlatform ==
    [moveType |-> "Static", origin |-> [x |-> 0, y |-> 0],
     cur |-> [x |-> 0, y |-> 0], mesh |-> [x |-> 0, y |-> 0],
     dir |-> 0, pause |-> 0, extentX |-> 0, extentY |-> 0, step |-> 0]

\* Math.max(-extent, Math.min(extent, nextOffset))
clampOffset(extent, nextOffset) == Max(-extent, Min(extent, nextOffset))

Abs(n) == IF n < 0 THEN -n ELSE n

movePlatformUnclamped(p) ==
    IF p.moveType = "Static" THEN p
    ELSE LET pause == IF p.pause > 0 THEN Max(0, p.pause - 1) ELSE p.pause
             p1 == [p EXCEPT !.pause = pause]
         IN  IF p.moveType = "TranslateX" /\ pause = 0
             THEN LET next == p.cur.x + p.dir * p.step
                      nextOffset == next - p.origin.x
                      p2 == IF Abs(nextOffset) > p.extentX
                            THEN [p1 EXCEPT !.dir = -@, !.pause = pauseSteps]
                            ELSE p1
                  IN  [p2 EXCEPT !.mesh = [x |-> next, y |-> p.cur.y]]
             ELSE IF p.moveType = "TranslateY" /\ pause = 0
             THEN LET next == p.cur.y + p.dir * p.step
                      nextOffset == next - p.origin.y
                      p2 == IF Abs(nextOffset) > p.extentY
                            THEN [p1 EXCEPT !.dir = -@, !.pause = pauseSteps]
                            ELSE p1
                  IN  [p2 EXCEPT !.mesh = [x |-> p.cur.x, y |-> next]]
             ELSE p1

\* updateTrack, the moving platforms of the 'translate' level: one advance
\* of a kinematic segment of type TranslateX or TranslateY.
movePlatform(p) ==
    IF p.moveType = "Static" THEN p
    ELSE LET pause == IF p.pause > 0 THEN Max(0, p.pause - 1) ELSE p.pause
             p1 == [p EXCEPT !.pause = pause]
         IN  IF p.moveType = "TranslateX" /\ pause = 0
             THEN LET next == p.cur.x + p.dir * p.step
                      nextOffset == next - p.origin.x
                      p2 == IF Abs(nextOffset) > p.extentX
                            THEN [p1 EXCEPT !.dir = -@, !.pause = pauseSteps]
                            ELSE p1
                      clamped == p.origin.x + clampOffset(p.extentX, nextOffset)
                  IN  [p2 EXCEPT !.mesh = [x |-> clamped, y |-> p.cur.y]]
             ELSE IF p.moveType = "TranslateY" /\ pause = 0
             THEN LET next == p.cur.y + p.dir * p.step
                      nextOffset == next - p.origin.y
                      p2 == IF Abs(nextOffset) > p.extentY
                            THEN [p1 EXCEPT !.dir = -@, !.pause = pauseSteps]
                            ELSE p1
                      clamped == p.origin.y + clampOffset(p.extentY, nextOffset)
                  IN  [p2 EXCEPT !.mesh = [x |-> p.cur.x, y |-> clamped]]
             ELSE p1

\* generateSegment on the 'translate' level: a kinematic body at the mesh's
\* position, which becomes the origin; the randomised direction, extents,
\* speed, starting offset (at most 0.8 of the extent) and starting pause.
spawnPlatform(moveType, origin, dir, extents, step, offs, pause) ==
    [moveType |-> moveType, origin |-> origin, cur |-> origin,
     mesh |-> IF moveType = "TranslateX"
              THEN [x |-> origin.x + offs, y |-> origin.y]
              ELSE [x |-> origin.x, y |-> origin.y + offs],
     dir |-> dir, pause |-> pause,
     extentX |-> extents[1], extentY |-> extents[2], step |-> step]

\* world.step(): a kinematic body takes its next kinematic translation
stepPlatform(p) == [p EXCEPT !.cur = p.mesh]

\* new EnhancedInputManager(): no key down, no key pressed this frame.
\* pausedPresses is not a field of the input manager: the keys of
\* keysPressedThisFrame whose last keydown came while the game was paused.
newInputManager ==
    [keys |-> {}, keysPressedThisFrame |-> {}, pausedPresses |-> {}]

\* CONFIG.risingLava.START_HEIGHT (-50) and RISE_SPEED (0.05).  The frame
\* time is counted in quarters of a physics step (1/240 s), the speed in
\* units of 0.05/240 per second and the height in units of 0.05/57600, so
\* that height += speed * dt and speed += 0.05 * dt are exact.
startHeight == -57600000
riseSpeed == 240

\* new Game(): empty track, empty pool, no crumble timer, not paused, no
\* frame error counted (failedInARow is the number of frames that have
\* failed since the last frame that succeeded); cfg is the base
\* configuration, without crumble mode; the accumulator is 0, the level is
\* not the rising-lava level.  frames and motionAdvances count the frames
\* animate() has run unpaused and the advances of the moving platform:
\* they are not fields of the game.
newTrack ==
    [segments |-> << >>, playerSegmentIndex |-> 0, pool |-> << >>,
     created |-> 0, score |-> 0, high |-> -1, running |-> FALSE,
     crumbleMode |-> FALSE, crumbleTimers |-> {}, zone |-> newZone,
     platform |-> noPlatform, isPaused |-> FALSE, consecutiveErrors |-> 0,
     failedInARow |-> 0, accumulator |-> 0, inputManager |-> newInputManager,
     risingLavaLevel |-> FALSE, risingLavaActive |-> FALSE,
     currentLavaHeight |-> startHeight, risingLavaSpeed |-> riseSpeed,
     frames |-> 0, motionAdvances |-> 0,
     allTeeter |-> FALSE, spikeRolls |-> {}, zones |-> << >>,
     damageZones |-> << >>]

\* SegmentPool.createSegment / resetSegment: the fields of a segment object
\* that is not on the track.  The crumble state lives on the platform mesh,
\* which despawnSegment drops.
\* id tells the segment objects apart (the n-th object createSegment made
\* has id n); tiltType stands for the hinge data generateSegment stores on
\* a teeter segment (hingeOffsetZ, hingeAxis, tiltType), "none" for
\* undefined; damageZones holds the positions in track.zones of the zone
\* objects the segment lists.
blankSegment ==
    [id |-> 0, index |-> 0, isCrumblePlatform |-> FALSE, crumbleState |-> STABLE,
     dynamic |-> FALSE, tiltType |-> "none", damageZones |-> {}]

\* SegmentPool.createSegment
createSegment(t) == [blankSegment EXCEPT !.id = t.created + 1]



\* SegmentPool.resetSegment: the fields it assigns; null and undefined are
\* not told apart.
resetSegment(seg) ==
    [seg EXCEPT !.index = 0, !.dynamic = FALSE, !.damageZones = {},
                !.isCrumblePlatform = FALSE, !.crumbleState = STABLE]

getSegmentKeepsPooled(t) ==
    IF Len(t.pool) > 0
    THEN [seg |-> t.pool[Len(t.pool)], track |-> t]
    ELSE [seg |-> createSegment(t),
          track |-> [t EXCEPT !.created = @ + 1]]

\* SegmentPool.getSegment: this.pool.pop() || this.createSegment()
getSegment(t) ==
    IF Len(t.pool) > 0
    THEN [seg |-> t.pool[Len(t.pool)],
          track |-> [t EXCEPT !.pool = SubSeq(@, 1, Len(@) - 1)]]
    ELSE [seg |-> createSegment(t),
          track |-> [t EXCEPT !.created = @ + 1]]

\* SegmentPool.returnSegment: resetSegment and keep, or destroy when full
returnSegment(t, seg) ==
    IF Len(t.pool) < maxPoolSize
    THEN [t EXCEPT !.pool = Append(@, resetSegment(seg))]
    ELSE t

\* segment.damageZones.forEach(z => { z.platformBody = null; z._removed =
\* true; }).  despawned is not a field of the zone: it records that the
\* segment owning the zone went through despawnSegment.
invalidateZones(t, seg) ==
    [t EXCEPT !.zones = [z \in DOMAIN t.zones |->
                            IF z \in seg.damageZones
                            THEN [t.zones[z] EXCEPT !.removed = TRUE,
                                                    !.platformBody = FALSE,
                                                    !.despawned = TRUE]
                            ELSE t.zones[z]]]

despawnSegmentKeepsTimer(t, seg) == returnSegment(invalidateZones(t, seg), seg)

despawnSegmentKeepsZones(t, seg) ==
    LET t1 == [t EXCEPT !.zones = [z \in DOMAIN t.zones |->
                                      IF z \in seg.damageZones
                                      THEN [t.zones[z] EXCEPT !.despawned = TRUE]
                                      ELSE t.zones[z]]]
    IN  returnSegment([t1 EXCEPT !.crumbleTimers = @ \ {seg.index}], seg)

\* despawnSegment: the crumble timer kept under segment.index is cleared,
\* the segment's zones are invalidated, then the segment goes back to the
\* pool.
despawnSegment(t, seg) ==
    returnSegment(invalidateZones([t EXCEPT !.crumbleTimers = @ \ {seg.index}],
                                  seg), seg)

\* generateSegment's crumble marking: with crumble mode on, every segment
\* past the safe buffer is a crumble platform (crumbleChance is 1.0), and
\* the new mesh starts Stable.
\* With cfg.track.allTeeter every segment past index 3 is a teeter
\* platform (its tilt axis is random: 'x' here) and gets the hinge data; a
\* segment that is not one keeps what it carries.
placeSegment(t, seg, index) ==
    LET isTeeter == t.allTeeter /\ index > 3
    IN  [seg EXCEPT !.index = index,
                    !.isCrumblePlatform = t.crumbleMode /\ index > crumbleSafeBuffer,
                    !.crumbleState = STABLE,
                    !.dynamic = isTeeter,
                    !.tiltType = IF isTeeter THEN "x" ELSE @]

\* generateSegment's spike spawning for the segment just placed at the end
\* of the track: index > 2 and Math.random() < spikeChance, whose outcome
\* for each index is held in t.spikeRolls.  The spike row is one zone
\* object, pushed to this.damageZones and to segment.damageZones.
spawnSpikes(t, index) ==
    IF index > 2 /\ index \in t.spikeRolls
    THEN LET z == Len(t.zones) + 1
         IN  [t EXCEPT !.zones = Append(@, [removed |-> FALSE,
                                            platformBody |-> TRUE,
                                            despawned |-> FALSE]),
                       !.damageZones = Append(@, z),
                       !.segments[Len(t.segments)].damageZones = @ \cup {z}]
    ELSE t

generateSegmentNoScore(t) ==
    LET prevIndex == IF Len(t.segments) > 0
                     THEN t.segments[Len(t.segments)].index ELSE -1
        index == prevIndex + 1
    IN  CHOOSE r \in
            { spawnSpikes(t1, index) :
                 t1 \in { [got.track EXCEPT
                             !.segments = Append(@, placeSegment(t, got.seg, index)),
                             !.high = Max(@, index)] :
                          got \in {getSegment(t)} } } : TRUE

generateSegmentIndexByCount(t) ==
    LET index == Len(t.segments)
    IN  CHOOSE r \in
            { spawnSpikes(t1, index) :
                 t1 \in { [got.track EXCEPT
                             !.segments = Append(@, placeSegment(t, got.seg, index)),
                             !.score = @ + 1,
                             !.high = Max(@, index)] :
                          got \in {getSegment(t)} } } : TRUE

\* generateSegment(lastSegment): index = prev.index + 1, prev.index = -1
\* when the track is empty
generateSegment(t) ==
    LET prevIndex == IF Len(t.segments) > 0
                     THEN t.segments[Len(t.segments)].index ELSE -1
        index == prevIndex + 1
    IN  CHOOSE r \in
            { spawnSpikes(t1, index) :
                 t1 \in { [got.track EXCEPT
                             !.segments = Append(@, placeSegment(t, got.seg, index)),
                             !.score = @ + 1,
                             !.high = Max(@, index)] :
                          got \in {getSegment(t)} } } : TRUE

desiredSegmentCountPlusOne(playerSegmentIndex) ==
    playerSegmentIndex + segmentsToGenerateAhead + 1

desiredSegmentCount(playerSegmentIndex) ==
    playerSegmentIndex + segmentsToGenerateAhead

despawnCountLate(playerSegmentIndex) ==
    playerSegmentIndex - segmentsToKeepBehind - 1

despawnCount(playerSegmentIndex) == playerSegmentIndex - segmentsToKeepBehind

\* while (this.trackSegments.length < desiredSegmentCount) generateSegment(last)
RECURSIVE generateUntil(_, _)
generateUntil(t, count) ==
    IF Len(t.segments) < count
    THEN CHOOSE r \in { generateUntil(t1, count) : t1 \in {generateSegment(t)} } : TRUE
    ELSE t

\* segmentsToDespawn.forEach(seg => this.despawnSegment(seg))
RECURSIVE despawnAll(_, _)
despawnAll(t, segs) ==
    IF Len(segs) = 0 THEN t
    ELSE CHOOSE r \in { despawnAll(t1, Tail(segs)) :
                           t1 \in {despawnSegment(t, Head(segs))} } : TRUE

\* compactDynamicArrays: the zones that are removed or have no valid body
\* are filtered out of this.damageZones.
compactDynamicArrays(t) ==
    LET stale(z) == t.zones[z].removed \/ ~t.zones[z].platformBody
        RECURSIVE keep(_)
        keep(s) == IF Len(s) = 0 THEN << >>
                   ELSE IF stale(Head(s)) THEN keep(Tail(s))
                   ELSE <<Head(s)>> \o keep(Tail(s))
    IN  [t EXCEPT !.damageZones = keep(@)]

\* The array positions the nearest-segment search looks at.
searchWindow(t) ==
    { i \in 0 .. (Len(t.segments) - 1) :
        /\ i >= Max(0, t.playerSegmentIndex - 3)
        /\ i < Min(Len(t.segments), t.playerSegmentIndex + 4) }

(***************************************************************************)
(* updateTrack.  nearest is what the throttled nearest-segment search      *)
(* assigns to playerSegmentIndex: -1 when the throttle skips the search    *)
(* or the window is empty, else a position of the window.                  *)
(***************************************************************************)
\* The track after the generation and the track after the prune are each
\* computed once.
prunedTrack(t2, n) ==
    IF n > 0
    THEN CHOOSE r \in
            { compactDynamicArrays([t4 EXCEPT !.playerSegmentIndex = @ - n]) :
                 t4 \in { despawnAll([t2 EXCEPT
                                         !.segments = SubSeq(@, n + 1, Len(@))],
                                     SubSeq(t2.segments, 1, n)) } } : TRUE
    ELSE t2

updateTrackResult(t, player, t2, t3) ==
    [track |-> t3,
     gen |-> [ran |-> TRUE, player |-> player,
              lenBefore |-> Len(t.segments),
              lastBefore |-> IF Len(t.segments) > 0
                             THEN t.segments[Len(t.segments)].index ELSE -1,
              highBefore |-> t.high,
              indices |-> [i \in 1 .. (Len(t2.segments) - Len(t.segments)) |->
                              t2.segments[Len(t.segments) + i].index],
              lenGenerated |-> Len(t2.segments),
              despawned |-> IF despawnCount(player) > 0
                            THEN despawnCount(player) ELSE 0,
              timersCleared |-> Cardinality(t.crumbleTimers)
                                   - Cardinality(t3.crumbleTimers)]]

updateTrackFrom(t, player) ==
    LET pruned(t2) == CHOOSE r \in
                         { updateTrackResult(t, player, t2, t3) :
                              t3 \in {prunedTrack(t2, despawnCount(player))} } : TRUE
    IN  CHOOSE r \in
            { pruned(t2) :
                 t2 \in { generateUntil(t1, desiredSegmentCount(player)) :
                             t1 \in {[t EXCEPT !.playerSegmentIndex = player]} } } :
            TRUE

updateTrackOf(t0, nearest) ==
    CHOOSE r \in
        { updateTrackFrom(t, IF nearest < 0 THEN t.playerSegmentIndex ELSE nearest) :
             t \in {t0} } : TRUE

updateTrack(w, nearest) ==
    CHOOSE w2 \in
        { [w1 EXCEPT !.track = r.track, !.obs.gen = r.gen] :
             w1 \in {w},
             r \in { updateTrackOf([w1.track EXCEPT !.platform = movePlatform(@)],
                                   nearest) : w1 \in {w} } } : TRUE

\* The position on the track of the segment with this index, 0 when it has
\* left the track.
positionOf(t, index) ==
    IF \E i \in 1 .. Len(t.segments) : t.segments[i].index = index
    THEN CHOOSE i \in 1 .. Len(t.segments) : t.segments[i].index = index
    ELSE 0

\* startCrumble(segment), segment = trackSegments[i - 1]
startCrumble(t, i) ==
    LET seg == t.segments[i]
    IN  IF ~t.crumbleMode \/ ~seg.isCrumblePlatform \/ seg.crumbleState # STABLE
        THEN t
        ELSE [t EXCEPT !.segments[i].crumbleState = WARNING,
                       !.crumbleTimers = @ \cup {seg.index}]

\* checkGrounded, the ground hit matched to trackSegments[i - 1]: a Stable
\* crumble platform starts to crumble.  (A Falling one with a dynamic body
\* sets onFallingPlatform, which checkGrounded above takes as its input.)
groundMatched(t, i) ==
    LET seg == t.segments[i]
    IN  IF t.crumbleMode /\ seg.isCrumblePlatform
        THEN IF seg.crumbleState = FALLING /\ seg.dynamic THEN t
             ELSE IF seg.crumbleState = STABLE THEN startCrumble(t, i)
             ELSE t
        ELSE t

crumbleTimerFiredDestroys(t, index) ==
    LET i == positionOf(t, index)
    IN  [t EXCEPT !.segments[i].crumbleState = DESTROYED,
                  !.crumbleTimers = @ \ {index}]

\* The setTimeout callback of startCrumble, for the timer kept under index:
\* the platform turns Falling and gets a dynamic body.  The callback holds
\* the segment object and its mesh, not the index.
crumbleTimerFired(t, index) ==
    LET i == positionOf(t, index)
    IN  IF i = 0 THEN [t EXCEPT !.crumbleTimers = @ \ {index}]
        ELSE [t EXCEPT !.segments[i].crumbleState = FALLING,
                       !.segments[i].dynamic = TRUE,
                       !.crumbleTimers = @ \ {index}]

\* _destroyFallenPlatform(segment)
destroyFallenPlatform(t, i) ==
    IF t.segments[i].crumbleState # FALLING THEN t
    ELSE [t EXCEPT !.crumbleTimers = @ \ {t.segments[i].index},
                   !.segments[i].crumbleState = DESTROYED,
                   !.segments[i].dynamic = FALSE]

\* updateCrumblePlatforms(dt): atLava is the set of track positions whose
\* body has come down to the lava surface.
RECURSIVE destroyReached(_, _, _)
destroyReached(t, atLava, i) ==
    IF i > Len(t.segments) THEN t
    ELSE destroyReached(IF /\ t.segments[i].isCrumblePlatform
                           /\ t.segments[i].crumbleState = FALLING
                           /\ i \in atLava
                        THEN destroyFallenPlatform(t, i) ELSE t,
                        atLava, i + 1)

updateCrumblePlatforms(t, atLava) ==
    IF ~t.crumbleMode THEN t ELSE destroyReached(t, atLava, 1)

\* cleanup(): the loop stops and every crumble timer is cleared.
cleanup(w) ==
    [w EXCEPT !.track.running = FALSE, !.track.crumbleTimers = {}]

\* resetCrumblePlatforms: every timer cleared, every crumble platform of
\* the track back to Stable on a fresh fixed body.
resetCrumblePlatforms(t) ==
    [t EXCEPT !.crumbleTimers = {},
              !.segments = [i \in 1 .. Len(t.segments) |->
                              IF t.segments[i].isCrumblePlatform
                              THEN [t.segments[i] EXCEPT !.crumbleState = STABLE,
                                                         !.dynamic = FALSE]
                              ELSE t.segments[i]]]

resetGame(w) ==
    CHOOSE w2 \in
        { [w1 EXCEPT !.track = [despawnAll(t1, t1.segments) EXCEPT
                                   !.segments = << >>, !.playerSegmentIndex = 0,
                                   !.damageZones = << >>,
                                   !.score = 0, !.high = -1, !.zone = newZone,
                                   !.platform = noPlatform,
                                   !.currentLavaHeight = startHeight,
                                   !.risingLavaActive = FALSE]] :
             w1 \in {w},
             t1 \in { IF w1.track.crumbleMode THEN resetCrumblePlatforms(w1.track)
                      ELSE w1.track : w1 \in {w} } } : TRUE

(***************************************************************************)
(* The frame loop's error recovery                                         *)
(***************************************************************************)
\* if (this._consecutiveErrors > 5)
maxFrameErrors == 5

\* pauseGame(true)
pauseGame(t) ==
    IF t.isPaused \/ ~t.running THEN t ELSE [t EXCEPT !.isPaused = TRUE]

\* resumeGame()
resumeGame(t) == [t EXCEPT !.isPaused = FALSE]

\* animate(), a frame whose body throws: the catch block.  renderThrows:
\* the recovery's own render call throws as well.
frameFailed(w, renderThrows) ==
    LET t == [w.track EXCEPT !.failedInARow = Min(@ + 1, maxFrameErrors + 2)]
    IN  IF renderThrows
        THEN [w EXCEPT !.track = [t EXCEPT !.running = FALSE]]
        ELSE [w EXCEPT
                 !.pc.respawnInProgress = FALSE,
                 !.track = IF t.consecutiveErrors > maxFrameErrors
                           THEN [pauseGame(t) EXCEPT !.consecutiveErrors = 0]
                           ELSE [t EXCEPT !.consecutiveErrors = @ + 1]]

\* animate(), a frame whose body does not throw: _consecutiveErrors is not
\* touched.
frameSucceeded(w) == [w EXCEPT !.track.failedInARow = 0]

(***************************************************************************)
(* Level start and the explicit resets                                     *)
(***************************************************************************)
noInput ==
    [ground |-> [hit |-> FALSE, falling |-> FALSE, relSmall |-> FALSE],
     space |-> FALSE, q |-> FALSE, move |-> "none",
     vy |-> R(0), mvx |-> R(0), platformVy |-> R(0)]

(***************************************************************************)
(* Hazards: one spike zone, and the lava                                   *)
(***************************************************************************)
checkZoneNoCooldown(w, processed, hit) ==
    IF ~processed \/ w.fsm.key = DEAD THEN w
    ELSE IF hit
         THEN [takeDamage(w, noInput, spikeDamage) EXCEPT
                  !.obs.damage = @ + 1, !.track.zone.cooldown = cooldownTicks - 1]
         ELSE [w EXCEPT !.track.zone.cooldown = IF @ > 0 THEN @ - 1 ELSE @]

\* _checkSegmentDamageZones, for one zone.  processed: the zone's segment is
\* in the window checkDamageAndScore walks and the player is within the
\* broad-phase distance of its platform; hit: the player overlaps the spike.
checkZone(w, processed, hit) ==
    IF ~processed \/ w.fsm.key = DEAD THEN w
    ELSE LET w1 == IF hit /\ w.track.zone.cooldown <= 0
                   THEN [takeDamage(w, noInput, spikeDamage) EXCEPT
                            !.obs.damage = @ + 1,
                            !.track.zone.cooldown = cooldownTicks]
                   ELSE w
         IN  [w1 EXCEPT !.track.zone.cooldown = IF @ > 0 THEN @ - 1 ELSE @]

\* checkDamageAndScore reaches the zone object z: it is listed by one of
\* the segments from one behind the player's to three ahead, and
\* _checkSegmentDamageZones does not skip it (!zone || zone._removed ||
\* !zone.platformBody).
zoneWalked(t, z) ==
    /\ \E i \in 1 .. Len(t.segments) :
          /\ i - 1 >= Max(0, t.playerSegmentIndex - 1)
          /\ i - 1 < Min(Len(t.segments), t.playerSegmentIndex + 4)
          /\ z \in t.segments[i].damageZones
    /\ ~t.zones[z].removed
    /\ t.zones[z].platformBody

\* checkDamageAndScore(step), with the count of steps since the last damage
checkDamageAndScore(w, processed, hit) ==
    LET w1 == checkZone(w, processed, hit)
    IN  [w1 EXCEPT !.track.zone.sinceDamage =
                      IF w1.obs.damage > 0 THEN 1 ELSE Min(@ + 1, cooldownTicks)]

\* playerBottom <= CONFIG.lava.surfaceY + 0.05, in hundredths of a unit
lavaTolerance == 5

lavaContactDamages(w, bottom) ==
    IF w.fsm.key = DEAD THEN w
    ELSE IF bottom <= lavaTolerance
    THEN [takeDamage(w, noInput, spikeDamage) EXCEPT
             !.obs.lava = [checked |-> TRUE, hit |-> TRUE,
                           reason |-> "lava"]]
    ELSE [w EXCEPT !.obs.lava = [noLava EXCEPT !.checked = TRUE]]

\* animate(): the lava contact check, bottom = playerBottom - surfaceY in
\* hundredths of a unit.  Skipped while the player is dead.
lavaContact(w, bottom) ==
    IF w.fsm.key = DEAD THEN w
    ELSE IF bottom <= lavaTolerance
    THEN [die(w, noInput) EXCEPT
             !.obs.lava = [checked |-> TRUE, hit |-> TRUE,
                           reason |-> "lava"]]
    ELSE [w EXCEPT !.obs.lava = [noLava EXCEPT !.checked = TRUE]]

risingLavaCollisionUnguarded(w, bottom) ==
    IF bottom <= 0 THEN die(w, noInput) ELSE w

\* checkRisingLavaCollision(), bottom = playerBottomY - currentLavaHeight
risingLavaCollision(w, bottom) ==
    IF w.fsm.key = DEAD THEN w
    ELSE IF bottom <= 0
    THEN [die(w, noInput) EXCEPT
             !.obs.lava = [checked |-> TRUE, hit |-> TRUE,
                           reason |-> "rising_lava"]]
    ELSE [w EXCEPT !.obs.lava = [noLava EXCEPT !.checked = TRUE]]

\* _setupLevelStart: resetGame, updateTrack (the track is empty, so the
\* search finds nothing), teleportTo(startPos), score = 0.
setupLevelStart(w) ==
    CHOOSE w4 \in
        { [w3 EXCEPT !.track.score = 0,
                     !.track.currentLavaHeight =
                         IF w3.track.risingLavaLevel THEN startHeight ELSE @,
                     !.track.risingLavaSpeed =
                         IF w3.track.risingLavaLevel THEN riseSpeed ELSE @,
                     !.track.risingLavaActive = w3.track.risingLavaLevel] :
             w3 \in { IF w2.track.crumbleMode
                      THEN [w2 EXCEPT !.track = resetCrumblePlatforms(@)]
                      ELSE w2 :
                         w2 \in { teleportTo(w1, noInput) :
                                    w1 \in {updateTrack(resetGame(w), -1)} } } } :
        TRUE

\* startLevel(level): this.cfg is refreshed from the level's configuration
\* before the level is set up.
startLevelMode(w, crumbleMode) ==
    LET w0 == [startOp(w) EXCEPT !.track.crumbleMode = crumbleMode,
                                 !.track.allTeeter = FALSE,
                                 !.track.risingLavaLevel = FALSE]
        w1 == setupLevelStart(w0)
    IN  [w1 EXCEPT !.track.running = TRUE]

\* a level without crumble platforms
startLevel(w) == startLevelMode(w, FALSE)

\* startLevel('chaotic'): cfg.track.allTeeter
startChaoticLevel(w) ==
    LET w0 == [startOp(w) EXCEPT !.track.crumbleMode = FALSE,
                                 !.track.allTeeter = TRUE,
                                 !.track.risingLavaLevel = FALSE]
        w1 == setupLevelStart(w0)
    IN  [w1 EXCEPT !.track.running = TRUE]

\* startLevel('translate'): the segments that updateTrack generates past
\* the static spawn platform are moving platforms; p is one of them.
startTranslateLevel(w, p) ==
    [startLevelMode(w, FALSE) EXCEPT !.track.platform = p]

\* startLevel('rising_lava')
startRisingLavaLevel(w) ==
    LET w0 == [startOp(w) EXCEPT !.track.crumbleMode = FALSE,
                                 !.track.allTeeter = FALSE,
                                 !.track.risingLavaLevel = TRUE]
        w1 == setupLevelStart(w0)
    IN  [w1 EXCEPT !.track.running = TRUE]

\* respawn(): stats and input cleared, body stopped, level set up again,
\* FSM put in idle.
\* Where _setupLevelStart can throw inside respawn(): nowhere, on entry
\* (resetGame), or once the track is rebuilt (teleportTo).
RespawnFaults == {"none", "resetGame", "teleportTo"}

\* respawn().  An exception of _setupLevelStart leaves respawn() at the
\* call: what was assigned before stays, what follows does not run.
respawnCall(w, fault) ==
    LET w0 == startOp(w)
        w1 == [w0 EXCEPT !.pc.respawnInProgress = TRUE,
                         !.pc.health = maxHealth, !.pc.sprint = maxSprint,
                         !.pc.sprintRegenTimer = 0, !.body = zeroVel,
                         !.track.inputManager = newInputManager,
                         !.obs.tap = noTap,
                         !.obs.respawn = [ran |-> TRUE, blocked |-> FALSE,
                                          from |-> w.fsm.key,
                                          hurt |-> w.pc.health < maxHealth,
                                          tired |-> w.pc.sprint < maxSprint]]
    IN  IF w.pc.respawnInProgress
        THEN [w0 EXCEPT !.obs.respawn = [noRespawn EXCEPT !.blocked = TRUE]]
        ELSE IF fault = "resetGame" THEN w1
        ELSE IF fault = "teleportTo" THEN updateTrack(resetGame(w1), -1)
        ELSE [changeState(setupLevelStart(w1), IDLE, noInput, 0) EXCEPT
                 !.pc.respawnInProgress = FALSE]

respawnKeepsEnergy(w) ==
    [respawnCall(w, "none") EXCEPT !.pc.sprint = w.pc.sprint]

\* respawn() with a level setup that does not throw
respawn(w) == respawnCall(w, "none")

restartLevel(w) ==
    LET w1 == setupLevelStart(startOp(w))
        w2 == changeState([w1 EXCEPT !.pc.health = maxHealth,
                                     !.pc.sprint = maxSprint],
                          IDLE, noInput, 0)
    IN  [w2 EXCEPT !.track.currentLavaHeight =
                       IF w2.track.risingLavaLevel THEN startHeight ELSE @,
                   !.track.risingLavaSpeed =
                       IF w2.track.risingLavaLevel THEN riseSpeed ELSE @,
                   !.track.risingLavaActive = w2.track.risingLavaLevel]

(***************************************************************************)
(* State after construction                                                *)
(***************************************************************************)
newController ==
    [sprint |-> maxSprint, sprintRegenTimer |-> 0,
     sinceConsume |-> sprintRegenDelayTicks, health |-> maxHealth,
     isGrounded |-> FALSE, coyoteTime |-> 0, groundTime |-> 0,
     onFallingPlatform |-> FALSE, respawnInProgress |-> FALSE, deaths |-> 0]

World == [fsm |-> fsm, cur |-> cur, pc |-> pc, body |-> body, obs |-> obs,
          track |-> track]

\* The ids of the segment objects only tell the objects apart.  A state
\* keeps them renamed in the order in which the objects are first met on the
\* track and then in the pool: the renaming is one-to-one, so an object met
\* twice is still met twice.
canonicalNames(ids) ==
    [k \in DOMAIN ids |->
        LET first == CHOOSE f \in 1 .. k :
                        ids[f] = ids[k] /\ \A j \in 1 .. (f - 1) : ids[j] # ids[k]
        IN  Cardinality({ ids[j] : j \in 1 .. first })]

renamedIds(t) ==
    CHOOSE r \in
        { [t EXCEPT !.segments = [i \in DOMAIN t.segments |->
                                     [t.segments[i] EXCEPT !.id = names[i]]],
                    !.pool = [i \in DOMAIN t.pool |->
                                 [t.pool[i] EXCEPT
                                     !.id = names[Len(t.segments) + i]]]] :
            names \in { canonicalNames(ids) :
                          ids \in { [k \in 1 .. (Len(t.segments) + Len(t.pool)) |->
                                       IF k <= Len(t.segments)
                                       THEN t.segments[k].id
                                       ELSE t.pool[k - Len(t.segments)].id] } } } :
        TRUE

\* The world w is computed once.
Commit(w) ==
    \E v \in {w} :
        /\ fsm' = v.fsm
        /\ cur' = v.cur
        /\ pc' = v.pc
        /\ body' = v.body
        /\ obs' = v.obs
        /\ \E t \in {renamedIds(v.track)} : track' = t

InitConstructed ==
    /\ fsm = newFSM
    /\ cur = freshCur
    /\ pc = newController
    /\ body = zeroVel
    /\ obs = noObs
    /\ track = newTrack
    /\ ticks = 0

(***************************************************************************)
(* Specification of the FSM alone: any caller, any key, any fault          *)
(***************************************************************************)
SetStateCall(name, fault) ==
    LET r == setState(fsm, name, fault)
    IN  /\ fsm' = r.fsm
        /\ obs' = [noObs EXCEPT !.call = [name |-> name, from |-> fsm.key,
                                          fault |-> fault, ret |-> r.ret,
                                          exited |-> r.exited, entered |-> r.entered,
                                          pushed |-> r.pushed]]
        /\ UNCHANGED <<cur, pc, body, track, ticks>>

NextFSM ==
    \E name \in STATES \cup {UnregisteredKey}, fault \in FaultKinds :
        SetStateCall(name, fault)

SpecFSM == InitConstructed /\ [][NextFSM]_vars

(***************************************************************************)
(* Specification of the controller in a running level.  Each action is one *)
(* handler the frame loop or the menus invoke.                             *)
(***************************************************************************)
MaxTicks == 2

VertSamples == {R(-6), R(3)}
HorizSamples == {R(2)}
PlatformVySamples == {R(-2)}

\* Q has priority over Space in every state that reads it and is ignored
\* while charging: the two are not sampled together.
FixedInputs ==
    { in \in [ground : GroundOutcomes, space : BOOLEAN, q : BOOLEAN,
              move : MoveSamples, vy : VertSamples, mvx : HorizSamples,
              platformVy : PlatformVySamples] : ~(in.q /\ in.space) }

\* processImmediateDash does nothing unless Q was pressed this frame.
DashInputs == { [noInput EXCEPT !.q = TRUE, !.move = m] : m \in MoveSamples }

\* loadModel(): the model and its animations are ready, the FSM gets its
\* first state.
LoadModel ==
    /\ fsm.key = NoState
    /\ Commit(changeState(startOp(World), IDLE, noInput, 0))
    /\ UNCHANGED ticks

StartLevel ==
    /\ fsm.key # NoState
    /\ Commit(startLevel(World))
    /\ UNCHANGED ticks

FixedUpdate(in) ==
    /\ track.running
    /\ ticks < MaxTicks
    /\ Commit(fixedUpdate(World, in))
    /\ ticks' = ticks + 1

ProcessImmediateDash(in) ==
    /\ track.running
    /\ Commit(processImmediateDash(World, in))
    /\ UNCHANGED ticks

\* checkDamageAndScore -> _checkSegmentDamageZones: the player overlaps a
\* spike zone that is off cooldown.
SpikeDamage ==
    /\ track.running
    /\ Commit(IF fsm.key = DEAD THEN World
              ELSE takeDamage(startOp(World), noInput,
                              spikeDamage))
    /\ UNCHANGED ticks

\* animate(): the player's bottom is at or below the lava surface.
LavaContact ==
    /\ track.running
    /\ fsm.key # DEAD
    /\ Commit(die(startOp(World), noInput))
    /\ UNCHANGED ticks

\* checkRisingLavaCollision(): the rising lava has reached the player.
RisingLavaCollision ==
    /\ track.running
    /\ LET w0 == startOp(World)
       IN  Commit(IF w0.fsm.key = DEAD THEN World ELSE die(w0, noInput))
    /\ UNCHANGED ticks

Respawn ==
    /\ track.running
    /\ Commit(respawn(World))
    /\ UNCHANGED ticks

RestartLevel ==
    /\ track.running
    /\ Commit(restartLevel(World))
    /\ UNCHANGED ticks

\* Energy and regen timer of a player standing in idle (sixths of a point,
\* ticks): full, regenerating after a dash, and low with the regen delay
\* still running.
StandingSamples == {<<600, 45>>, <<30, 45>>, <<24, 10>>, <<18, 10>>}

\* Energy at the start of a charge that is in progress and the number of
\* ticks Space has been held: taps from full and from exactly the quick-jump
\* cost, a charge about to exhaust the energy, one about to pass the tap
\* threshold, one about to reach maxChargeTime.
ChargingSamples == {<<600, 3>>, <<30, 3>>, <<33, 6>>, <<600, 12>>, <<600, 89>>}

\* The track right after _setupLevelStart.
startedTrack == startLevel([track |-> newTrack, fsm |-> newFSM, cur |-> freshCur,
                            pc |-> newController, body |-> zeroVel,
                            obs |-> noObs]).track

\* A run in progress: standing in idle on stable ground.
InitStanding ==
    /\ fsm = [key |-> IDLE, historyLen |-> maxHistory, historyLast |-> IDLE]
    /\ cur = freshCur
    /\ \E e \in StandingSamples :
          pc = [newController EXCEPT !.sprint = e[1], !.sprintRegenTimer = e[2],
                                     !.sinceConsume = e[2],
                                     !.isGrounded = TRUE,
                                     !.groundTime = GroundTimeCap]
    /\ body = zeroVel
    /\ obs = noObs
    /\ track = startedTrack
    /\ ticks = 0

\* A run in progress: charging on stable ground, Space held for c[2] ticks
\* since the energy was c[1].
InitCharging ==
    /\ fsm = [key |-> CHARGE, historyLen |-> maxHistory, historyLast |-> CHARGE]
    /\ \E c \in ChargingSamples :
          /\ cur = [freshCur EXCEPT !.chargeTime = c[2],
                                    !.energyConsumed = c[2] * staminaDrainPerTick,
                                    !.startEnergy = c[1],
                                    !.maxPossibleEnergy = Min(c[1], maxChargeDrain),
                                    !.startedGrounded = TRUE]
          /\ pc = [newController EXCEPT
                      !.sprint = c[1] - c[2] * staminaDrainPerTick,
                      !.sinceConsume = 1,
                      !.isGrounded = TRUE, !.groundTime = GroundTimeCap]
    /\ body = zeroVel
    /\ obs = [noObs EXCEPT !.tap = [held |-> TRUE, signals |-> 0]]
    /\ track = startedTrack
    /\ ticks = 0

Init == InitStanding \/ InitCharging

Next ==
    \/ StartLevel
    \/ \E in \in FixedInputs : FixedUpdate(in)
    \/ \E in \in DashInputs : ProcessImmediateDash(in)
    \/ SpikeDamage
    \/ LavaContact
    \/ RisingLavaCollision
    \/ Respawn
    \/ RestartLevel

Spec == Init /\ [][Next]_vars

\* C1: whatever setState calls are made, the current key is one of the seven
\* states once a transition has been accepted (and "none" only before that),
\* every change of the key follows an edge of the transition table or is the
\* initial transition, an accepted call installs the requested state, and a
\* call for a target that is not in the table row of the current state
\* leaves the key as it was.
C1_TransitionsFollowTable ==
    [][ /\ fsm'.key \in STATES \cup {NoState}
        /\ (fsm'.key = NoState => fsm.key = NoState /\ fsm'.historyLen = 0)
        /\ (fsm'.key # fsm.key =>
               \/ fsm.key = NoState
               \/ fsm.key \in STATES /\ fsm'.key \in validTransitions[fsm.key])
        /\ \A name \in STATES \cup {UnregisteredKey}, fault \in FaultKinds :
              SetStateCall(name, fault) =>
                 /\ obs'.call.ret => fsm'.key = name
                 /\ (fsm.key \in STATES /\ name \notin validTransitions[fsm.key])
                       => fsm'.key = fsm.key
      ]_vars

\* An accepted walk of several edges has happened and a request that is not
\* in the table (idle -> leap) was then refused.
C1_Witness ==
    /\ obs.call.from = IDLE /\ obs.call.name = LEAP
    /\ fsm.key = IDLE /\ fsm.historyLen >= 3

\* C2: a setState call whose target is unregistered, is the current state,
\* or is not allowed from the current state returns false, runs neither
\* exit() of the current state nor enter() of any state, appends nothing to
\* the history and leaves the FSM exactly as it was.
C2_RejectedCallHasNoEffect ==
    [][ \A name \in STATES \cup {UnregisteredKey}, fault \in FaultKinds :
          (/\ SetStateCall(name, fault)
           /\ \/ name \notin STATES
              \/ name = fsm.key
              \/ fsm.key \in STATES /\ name \notin validTransitions[fsm.key])
          => /\ ~obs'.call.ret
             /\ ~obs'.call.exited
             /\ obs'.call.entered = NoState
             /\ ~obs'.call.pushed
             /\ fsm' = fsm
      ]_vars

\* Dead refused a request for walk, and an unregistered key was refused too.
C2_Witness ==
    /\ fsm.key = DEAD /\ fsm.historyLen >= 2
    /\ obs.call.name \in {WALK, UnregisteredKey}
    /\ ~obs.call.ret

\* C3: from Dead, a fixed tick, a dash request, spike damage or a lava check
\* leaves the FSM in Dead; a step that starts from Dead and is one of the
\* explicit resets (level start, respawn, level restart: each teleports the
\* player to the start) ends in Idle.
C3_DeadUntilReset ==
    [][ fsm.key = DEAD =>
          IF StartLevel \/ Respawn \/ RestartLevel
          THEN fsm'.key = IDLE
          ELSE fsm'.key = DEAD
      ]_vars

\* The player died while standing with the regen delay running and fixed
\* ticks have run since with Space held: a live tick on the ground would
\* have advanced the regen timer.
C3_Witness ==
    /\ fsm.key = DEAD
    /\ ticks >= 1
    /\ obs.tap.held
    /\ pc.isGrounded /\ pc.coyoteTime = 0
    /\ pc.sprint = 18 /\ pc.sprintRegenTimer = 10

\* C4: the energy is never below 0 and never above maxSprint.
C4_EnergyInRange == 0 <= pc.sprint /\ pc.sprint <= maxSprint

\* A dash from full energy has consumed all of it.
C4_Witness ==
    /\ fsm.key = DASH
    /\ cur.staminaUsed = maxSprint
    /\ pc.sprint = 0

\* The vertical velocity a quick jump is required to set: the fixed quick
\* jump force, taken relative to the platform on a falling crumble platform.
QuickJumpRequiredVy(l) ==
    IF l.platform THEN RAdd(l.platformVy, R(quickJumpVerticalForce))
    ELSE R(quickJumpVerticalForce)

\* C5 (amended): a release within the tap threshold of a charge that began
\* with at least quickJumpCost never takes the insufficient-energy branch; it
\* sets the vertical velocity to the fixed quick-jump force (plus the
\* platform's vertical velocity when standing on a falling crumble platform)
\* whatever the velocity was, keeps the horizontal velocity, leaves the
\* energy at the pre-charge energy minus quickJumpCost and the FSM in Leap.
C5_QuickJumpSetsVelocity ==
    /\ obs.launch.kind = "quickFail" => obs.launch.startEnergy < quickJumpCost
    /\ obs.launch.kind = "quick" =>
          /\ obs.launch.chargeTime < tapThresholdTicks
          /\ obs.launch.startEnergy >= quickJumpCost
          /\ REq(obs.launch.velAfter.y, QuickJumpRequiredVy(obs.launch))
          /\ REq(obs.launch.velAfter.x, obs.launch.velBefore.x)
          /\ pc.sprint = obs.launch.startEnergy - quickJumpCost
          /\ fsm.key = LEAP

\* A tap from exactly quickJumpCost, with energy drained and refunded on the
\* way, while the body was moving upward: the jump left the energy at 0.
C5_Witness ==
    /\ obs.launch.kind = "quick"
    /\ obs.launch.startEnergy = quickJumpCost
    /\ obs.launch.energyConsumed > 0
    /\ ~obs.launch.platform
    /\ REq(obs.launch.velBefore.y, R(3))
    /\ pc.sprint = 0
    /\ fsm.key = LEAP

\* C5 as claimed: every quick jump sets the vertical velocity to the fixed
\* quick-jump value.
C5_AsClaimed ==
    obs.launch.kind = "quick" =>
       /\ REq(obs.launch.velAfter.y, R(quickJumpVerticalForce))
       /\ REq(obs.launch.velAfter.x, obs.launch.velBefore.x)
       /\ pc.sprint = obs.launch.startEnergy - quickJumpCost
       /\ fsm.key = LEAP

\* C6 as claimed: Space is released after being held by a player who stands
\* in Idle with less than quickJumpCost; the tick of the release leaves the
\* velocity without a jump, the energy as it was and the FSM in Idle or Fall,
\* and the insufficient-energy signal has fired exactly once for this press.
C6_AsClaimed ==
    [][ \A in \in FixedInputs :
          (/\ FixedUpdate(in)
           /\ obs.tap.held /\ ~in.space /\ ~in.q /\ in.move = "none"
           /\ fsm.key = IDLE /\ pc.isGrounded
           /\ pc.sprint < quickJumpCost)
          => /\ obs'.launch.kind \notin {"quick", "charged"}
             /\ pc'.sprint = pc.sprint
             /\ fsm'.key \in {IDLE, FALL}
             /\ obs'.tap.signals = 1
      ]_vars

\* C7 (amended): the refund of a tap release restores the energy to exactly
\* the energy the charge began with, whatever was drained; the quick jump
\* then deducts quickJumpCost from it, so the press and release together
\* cost quickJumpCost.
C7_TapRefundsThenCharges ==
    obs.launch.kind \in {"quick", "quickFail"} =>
       /\ obs.launch.refunded = obs.launch.startEnergy
       /\ obs.launch.kind = "quick"
       /\ pc.sprint = obs.launch.refunded - quickJumpCost

\* A tap that drained energy for six ticks before the release.
C7_Witness ==
    /\ obs.launch.kind = "quick"
    /\ obs.launch.chargeTime >= 6
    /\ obs.launch.energyConsumed = obs.launch.chargeTime * staminaDrainPerTick
    /\ obs.launch.refunded = 33
    /\ pc.sprint = 3

\* C7 as claimed: after a tap release the energy is the pre-charge energy.
C7_AsClaimed ==
    obs.launch.kind \in {"quick", "quickFail"} =>
       pc.sprint = obs.launch.startEnergy

\* min(1, energyConsumed / maxPossibleEnergy), stated without chargePct.
C8_Pct(l) ==
    IF l.maxPossibleEnergy <= 0 THEN R(0)
    ELSE IF l.energyConsumed >= l.maxPossibleEnergy THEN R(1)
    ELSE [n |-> l.energyConsumed, d |-> l.maxPossibleEnergy]

\* C8: a charged launch applies the vertical force
\* minVertical + (maxVertical - minVertical) * pct and the forward force
\* minForward + (maxForward - minForward) * pct with
\* pct = min(1, energyConsumed / maxPossibleEnergy); both lie within their
\* [min, max] and no smaller consumption would have given a larger force.
C8_ChargedLaunchFormula ==
    obs.launch.kind = "charged" =>
       LET l == obs.launch
           pct == C8_Pct(l)
       IN  /\ REq(l.vY, RAdd(R(minVertical), RMul(R(maxVertical - minVertical), pct)))
           /\ REq(l.hF, RAdd(R(minForward), RMul(R(maxForward - minForward), pct)))
           /\ RLeq(R(minVertical), l.vY) /\ RLeq(l.vY, R(maxVertical))
           /\ RLeq(R(minForward), l.hF) /\ RLeq(l.hF, R(maxForward))
           /\ REq(l.velAfter.y, RAdd(l.platformVy, l.vY))
           /\ REq(l.velAfter.x, RAdd(l.velBefore.x, l.hF))
           /\ \A c \in 0..l.energyConsumed :
                 /\ RLeq(launchVertical(chargePct(c, l.maxPossibleEnergy)), l.vY)
                 /\ RLeq(launchForward(chargePct(c, l.maxPossibleEnergy)), l.hF)

\* A launch at the maximum charge time: one more tick was drained than
\* maxPossibleEnergy allows for, and the force is the maximum.
C8_Witness ==
    /\ obs.launch.kind = "charged"
    /\ obs.launch.chargeTime = maxChargeTicks
    /\ obs.launch.energyConsumed > obs.launch.maxPossibleEnergy
    /\ REq(obs.launch.vY, R(maxVertical))
    /\ fsm.key = LEAP

\* A launch released just past the tap threshold, part way up the range.
C8_WitnessPartial ==
    /\ obs.launch.kind = "charged"
    /\ obs.launch.chargeTime = tapThresholdTicks
    /\ RLess(R(minVertical), obs.launch.vY)
    /\ RLess(obs.launch.vY, R(maxVertical))

(***************************************************************************)
(* Specification of the track window: the game from construction, the      *)
(* render loop calling updateTrack with whatever segment the search finds  *)
(* nearest to the player, and the resets that start a new run.             *)
(***************************************************************************)
MaxSegmentIndex == 24

\* animate() -> updateTrack(); the run is cut off once the generator has
\* reached MaxSegmentIndex.
UpdateTrack(nearest) ==
    /\ track.running
    /\ track.high < MaxSegmentIndex
    /\ Commit(updateTrack(startOp(World), nearest))
    /\ UNCHANGED ticks

NextTrack ==
    \/ LoadModel
    \/ StartLevel
    \/ \E nearest \in {-1} \cup searchWindow(track) : UpdateTrack(nearest)
    \/ Respawn
    \/ RestartLevel

SpecTrack == InitConstructed /\ [][NextTrack]_vars

\* C9: when updateTrack has run, the track had after generation the length
\* it had before, or exactly playerIndex + segmentsToGenerateAhead when that
\* is longer; afterwards no active segment lies more than
\* segmentsToKeepBehind segments behind the player's segment, and the player
\* index names an active segment.
C9_WindowAroundPlayer ==
    obs.gen.ran =>
       /\ obs.gen.lenGenerated =
             Max(obs.gen.lenBefore, obs.gen.player + segmentsToGenerateAhead)
       /\ Len(obs.gen.indices) = obs.gen.lenGenerated - obs.gen.lenBefore
       /\ Len(track.segments) = obs.gen.lenGenerated - obs.gen.despawned
       /\ track.playerSegmentIndex = obs.gen.player - obs.gen.despawned
       /\ track.playerSegmentIndex + 1 \in 1 .. Len(track.segments)
       /\ \A i \in 1 .. Len(track.segments) :
             track.segments[i].index >=
                track.segments[track.playerSegmentIndex + 1].index
                   - segmentsToKeepBehind

\* The player has run ahead: updateTrack generated segments and pruned the
\* ones that fell behind, and exactly segmentsToKeepBehind remain behind.
C9_Witness ==
    /\ obs.gen.ran
    /\ obs.gen.despawned >= 2
    /\ Len(obs.gen.indices) >= 2
    /\ track.playerSegmentIndex = segmentsToKeepBehind
    /\ track.segments[1].index > 0

\* C10: the segments one updateTrack generates are numbered upward from the
\* last index before it, the active indices go up by one from each segment
\* to the next, and every generated index is above every index generated
\* before in this run.
C10_IndicesIncrease ==
    /\ \A i \in 1 .. (Len(track.segments) - 1) :
          track.segments[i + 1].index = track.segments[i].index + 1
    /\ \A i, j \in 1 .. Len(track.segments) :
          track.segments[i].index = track.segments[j].index => i = j
    /\ Len(track.segments) > 0 =>
          track.segments[Len(track.segments)].index = track.high
    /\ obs.gen.ran =>
          \A i \in 1 .. Len(obs.gen.indices) :
             /\ obs.gen.indices[i] = obs.gen.lastBefore + i
             /\ obs.gen.indices[i] > obs.gen.highBefore

\* Segments were generated after pruning, and the run has numbered more
\* segments than objects were ever created: the pool has been reused.
C10_Witness ==
    /\ obs.gen.ran
    /\ obs.gen.lastBefore >= segmentsToGenerateAhead
    /\ Len(obs.gen.indices) >= 1
    /\ track.segments[1].index > 0
    /\ track.created <= track.high
    /\ Len(track.pool) >= 1

(***************************************************************************)
(* Specification of the crumble platforms: a crumble level (or a plain     *)
(* one) is started, the player moves along the track and lands on          *)
(* segments, crumble timers fire whenever the browser runs them, falling   *)
(* platforms reach the lava, and the level is reset or torn down.          *)
(***************************************************************************)
MaxCrumbleIndex == 5

\* startLevel(level) for the level whose configuration has crumbleMode
StartCrumbleLevel ==
    /\ fsm.key # NoState
    /\ Commit(startLevelMode(World, TRUE))
    /\ UNCHANGED ticks

\* fixedUpdate -> checkGrounded: the ground under the player is the segment
\* at position i, one of those around the player's segment.  Landings are
\* followed up to segment index MaxCrumbleIndex.
GroundMatched(i) ==
    /\ track.running
    /\ i \in 1 .. Len(track.segments)
    /\ track.segments[i].index <= MaxCrumbleIndex
    /\ Commit([startOp(World) EXCEPT !.track = groundMatched(@, i)])
    /\ UNCHANGED ticks

\* The browser runs the timeout kept under index; it does so whether or not
\* the game loop is running.
CrumbleTimeout(index) ==
    /\ index \in track.crumbleTimers
    /\ Commit([startOp(World) EXCEPT
                  !.track = crumbleTimerFired(@, index),
                  !.obs.crumble = [fired |-> index,
                                   stale |-> positionOf(track, index) = 0]])
    /\ UNCHANGED ticks

\* animate() -> updateCrumblePlatforms(dt)
UpdateCrumblePlatforms(atLava) ==
    /\ track.running
    /\ Commit([startOp(World) EXCEPT !.track = updateCrumblePlatforms(@, atLava)])
    /\ UNCHANGED ticks

\* cleanup(), on leaving to the menu or closing the page
Cleanup ==
    /\ track.running
    /\ Commit(cleanup(startOp(World)))
    /\ UNCHANGED ticks

NextCrumble ==
    \/ LoadModel
    \/ StartCrumbleLevel
    \/ StartLevel
    \/ \E nearest \in {-1} \cup searchWindow(track) : UpdateTrack(nearest)
    \/ \E i \in searchWindow(track) : GroundMatched(i + 1)
    \/ \E index \in track.crumbleTimers : CrumbleTimeout(index)
    \/ \E i \in 1 .. Len(track.segments) : UpdateCrumblePlatforms({i})
    \/ Respawn
    \/ RestartLevel
    \/ Cleanup

SpecCrumble == InitConstructed /\ [][NextCrumble]_vars

\* The moves of one crumble platform: stay, or one step along
\* Stable -> Warning -> Falling -> Destroyed.
CrumbleMoves ==
    { <<a, a>> : a \in CrumbleStates }
       \cup { <<STABLE, WARNING>>, <<WARNING, FALLING>>, <<FALLING, DESTROYED>> }

\* The steps that reset the level: each sets the level up again, and only
\* then does updateTrack find the track empty.
LevelReset ==
    /\ obs'.gen.ran /\ obs'.gen.lenBefore = 0
    /\ StartCrumbleLevel \/ StartLevel \/ Respawn \/ RestartLevel

\* C11: in every step that is not a level reset, a segment that stays on the
\* track (same index before and after) keeps its crumble state or moves one
\* step along Stable -> Warning -> Falling -> Destroyed, and a segment that
\* joins the track is Stable; after a level reset every segment is Stable.
C11_CrumbleLifecycle ==
    [][ /\ \A j \in 1 .. Len(track'.segments) :
              track'.segments[j].crumbleState \in CrumbleStates
        /\ IF LevelReset
           THEN \A j \in 1 .. Len(track'.segments) :
                   track'.segments[j].crumbleState = STABLE
           ELSE \A j \in 1 .. Len(track'.segments) :
                   LET i == positionOf(track, track'.segments[j].index)
                   IN  IF i = 0
                       THEN track'.segments[j].crumbleState = STABLE
                       ELSE <<track.segments[i].crumbleState,
                              track'.segments[j].crumbleState>> \in CrumbleMoves
      ]_vars

\* Three crumble platforms of one run, one in each state past Stable.
C11_Witness ==
    \E i, j, k \in 1 .. Len(track.segments) :
       /\ track.segments[i].crumbleState = DESTROYED
       /\ track.segments[j].crumbleState = FALLING
       /\ track.segments[k].crumbleState = WARNING
       /\ track.segments[k].index \in track.crumbleTimers

\* C12: every pending crumble timer belongs to a crumble platform that is on
\* the track and in Warning; no timer callback has run for a segment that
\* had left the track; and once the game is torn down no timer is pending.
C12_NoStaleCrumbleTimer ==
    /\ \A index \in track.crumbleTimers :
          LET i == positionOf(track, index)
          IN  /\ i # 0
              /\ track.segments[i].isCrumblePlatform
              /\ track.segments[i].crumbleState = WARNING
    /\ ~obs.crumble.stale
    /\ ~track.running => track.crumbleTimers = {}

\* updateTrack has just despawned a platform whose Warning timer was still
\* pending, clearing the timer, while another platform's timer stays.
C12_Witness ==
    /\ obs.gen.ran
    /\ obs.gen.despawned >= 1
    /\ obs.gen.timersCleared >= 1
    /\ track.crumbleMode

(***************************************************************************)
(* Specification of the hazards: a level is running, each fixed step       *)
(* checks the spike zone, each frame checks the lava, and the level can be *)
(* reset.                                                                  *)
(***************************************************************************)
\* playerBottom - surfaceY, hundredths of a unit
LavaBottoms == {-6, -5, -3, 0, 3, 5, 6}

\* playerBottomY - currentLavaHeight, hundredths of a unit
RisingLavaBottoms == {-1, 0, 1}

\* the fixed-step loop of animate(): checkDamageAndScore(step)
CheckDamageAndScore(processed, hit) ==
    /\ track.running
    /\ Commit(checkDamageAndScore(startOp(World), processed, hit))
    /\ UNCHANGED ticks

\* animate(): the lava contact check
LavaContactCheck(bottom) ==
    /\ track.running
    /\ Commit(lavaContact(startOp(World), bottom))
    /\ UNCHANGED ticks

\* animate() -> checkRisingLavaCollision()
RisingLavaCheck(bottom) ==
    /\ track.running
    /\ Commit(risingLavaCollision(startOp(World), bottom))
    /\ UNCHANGED ticks

NextHazard ==
    \/ \E processed, hit \in BOOLEAN : CheckDamageAndScore(processed, hit)
    \/ \E bottom \in LavaBottoms : LavaContactCheck(bottom)
    \/ \E bottom \in RisingLavaBottoms : RisingLavaCheck(bottom)
    \/ Respawn
    \/ RestartLevel

\* A level in progress: the player stands in idle with full energy.
InitHazard == InitStanding /\ pc.sprint = maxSprint

SpecHazard == InitHazard /\ [][NextHazard]_vars

C14_AsClaimed ==
    [][ \A bottom \in LavaBottoms :
          (LavaContactCheck(bottom) /\ fsm.key \notin {DEAD, NoState}) =>
             /\ (bottom >= -5 /\ bottom <= 5) =>
                   ~obs'.lava.hit /\ fsm'.key = fsm.key
             /\ bottom < -5 =>
                   obs'.lava.hit /\ fsm'.key = DEAD /\ obs'.lava.reason = "lava"
      ]_vars

\* C15: a lava or rising-lava check that finds contact with a live player
\* leaves the FSM in Dead and the health as it was, whatever the health and
\* the zone's cooldown; a check on a dead player changes nothing of the
\* player; a check without contact changes nothing either.
C15_LavaKillsAtOnce ==
    [][ /\ \A bottom \in LavaBottoms :
              LavaContactCheck(bottom) =>
                 IF fsm.key # DEAD /\ bottom <= lavaTolerance
                 THEN fsm'.key = DEAD /\ pc'.health = pc.health
                      /\ track'.zone = track.zone
                 ELSE fsm' = fsm /\ pc' = pc /\ body' = body
        /\ \A bottom \in RisingLavaBottoms :
              RisingLavaCheck(bottom) =>
                 IF fsm.key # DEAD /\ bottom <= 0
                 THEN fsm'.key = DEAD /\ pc'.health = pc.health
                      /\ track'.zone = track.zone
                 ELSE fsm' = fsm /\ pc' = pc /\ body' = body
      ]_vars

\* The lava has killed a player who had health left, while the spike zone
\* was still cooling down.
C15_Witness ==
    /\ obs.lava.hit
    /\ fsm.key = DEAD
    /\ pc.health = maxHealth - spikeDamage
    /\ track.zone.cooldown > 0

(***************************************************************************)
(* The moving platforms of the 'translate' level                           *)
(***************************************************************************)
\* _extentX and _extentY, between 0.6 and 1.0 of maxDisplacement 6.0
PlatformExtents == {<<60, 36>>, <<36, 60>>}

\* speed * timestep: 0.3 of a unit, and the 7 units of a platform fast
\* enough to pass its extent from the origin in one advance
PlatformSteps == {3, 70}

PlatformOrigins == {[x |-> 100, y |-> -20]}

\* The moving platforms a started 'translate' level can have generated.
SpawnedPlatforms ==
    { spawnPlatform(moveType, origin, dir, extents, step, offs, pause) :
        moveType \in {"TranslateX", "TranslateY"}, origin \in PlatformOrigins,
        dir \in {-1, 1}, extents \in PlatformExtents, step \in PlatformSteps,
        offs \in {-28, 0, 28}, pause \in {0, 2} }

\* the frame loop of animate(): updateTrack()
MovePlatforms ==
    /\ UpdateTrack(-1)
    /\ track.platform.moveType # "Static"

\* the fixed-step loop of animate(): world.step()
StepPlatform ==
    /\ track.running
    /\ track.platform.moveType # "Static"
    /\ Commit([startOp(World) EXCEPT !.track.platform = stepPlatform(@)])
    /\ UNCHANGED ticks

NextMotion ==
    \/ MovePlatforms
    \/ StepPlatform

\* The 'translate' level has just been started: the player stands in idle
\* on the static spawn platform.
InitMotion ==
    /\ fsm = [key |-> IDLE, historyLen |-> maxHistory, historyLast |-> IDLE]
    /\ cur = freshCur
    /\ pc = [newController EXCEPT !.isGrounded = TRUE,
                                  !.groundTime = GroundTimeCap]
    /\ body = zeroVel
    /\ obs = noObs
    /\ \E p \in SpawnedPlatforms :
          track = startTranslateLevel([track |-> newTrack, fsm |-> newFSM,
                                       cur |-> freshCur, pc |-> newController,
                                       body |-> zeroVel, obs |-> noObs], p).track
    /\ ticks = 0

SpecMotion == InitMotion /\ [][NextMotion]_vars

\* the offset of a position from the origin along the platform's axis
C16_Offset(p, pos) ==
    IF p.moveType = "TranslateX" THEN pos.x - p.origin.x ELSE pos.y - p.origin.y

C16_Extent(p) == IF p.moveType = "TranslateX" THEN p.extentX ELSE p.extentY

\* C16: after every advance of a TranslateX or TranslateY platform its
\* offset from the origin is within [-extent, +extent]; an advance that
\* would pass the extent puts the platform at origin + extent on the side
\* it was moving to, flips the direction and starts the pause timer; an
\* advance that leaves the pause timer above 0 does not move the platform.
C16_TranslateWithinExtent ==
    [][ MovePlatforms =>
          LET p == track.platform
              q == track'.platform
              paused == p.pause > 1
              nextOffset == C16_Offset(p, p.cur) + p.dir * p.step
          IN  /\ Abs(C16_Offset(q, q.mesh)) <= C16_Extent(q)
              /\ (~paused /\ Abs(nextOffset) > C16_Extent(p)) =>
                    /\ C16_Offset(q, q.mesh) = p.dir * C16_Extent(p)
                    /\ q.dir = -p.dir
                    /\ q.pause = pauseSteps
              /\ (~paused /\ Abs(nextOffset) <= C16_Extent(p)) =>
                    /\ C16_Offset(q, q.mesh) = nextOffset
                    /\ q.dir = p.dir /\ q.pause = 0
              /\ paused =>
                    /\ q.mesh = p.mesh /\ q.dir = p.dir
                    /\ q.pause = p.pause - 1 /\ q.pause > 0
      ]_vars

\* A TranslateX platform of extent 6 that stood at its origin moving in
\* direction +1 with a step of 7 units has been advanced.
C16_Witness ==
    /\ track.platform.moveType = "TranslateX"
    /\ track.platform.extentX = 60 /\ track.platform.step = 70
    /\ track.platform.cur = track.platform.origin
    /\ track.platform.mesh.x = track.platform.origin.x + 60
    /\ track.platform.dir = -1
    /\ track.platform.pause = pauseSteps

\* A TranslateY platform rests at its lower extent with the pause running.
C16_WitnessPaused ==
    /\ track.platform.moveType = "TranslateY"
    /\ track.platform.mesh.y = track.platform.origin.y - track.platform.extentY
    /\ track.platform.cur = track.platform.mesh
    /\ track.platform.pause \in 1 .. (pauseSteps - 2)

C17_WitnessCharge ==
    /\ obs.respawn.ran /\ obs.respawn.from = CHARGE /\ obs.respawn.tired
    /\ fsm.key = IDLE /\ pc.sprint = maxSprint

(***************************************************************************)
(* Specification of respawn() and of the frame loop's error recovery       *)
(***************************************************************************)
\* respawn(), from the game-over key, the retry button or the pause menu
RespawnCall(fault) ==
    /\ track.running
    /\ Commit(respawnCall(World, fault))
    /\ UNCHANGED ticks

\* animate(): a frame that runs to its end
FrameSucceeded ==
    /\ track.running
    /\ Commit(frameSucceeded(startOp(World)))
    /\ UNCHANGED ticks

\* animate(): a frame that throws
FrameFailed(renderThrows) ==
    /\ track.running
    /\ Commit(frameFailed(startOp(World), renderThrows))
    /\ UNCHANGED ticks

ResumeGame ==
    /\ track.isPaused
    /\ Commit([startOp(World) EXCEPT !.track = resumeGame(@)])
    /\ UNCHANGED ticks

NextFrame ==
    \/ StartLevel
    \/ \E fault \in RespawnFaults : RespawnCall(fault)
    \/ FrameSucceeded
    \/ \E renderThrows \in BOOLEAN : FrameFailed(renderThrows)
    \/ ResumeGame
    \/ ~track.isPaused /\ SpikeDamage
    \/ ~track.isPaused /\ LavaContact

SpecFrame == InitHazard /\ [][NextFrame]_vars

\* C18 as claimed: a respawn() called while the guard is set changes
\* nothing, and a respawn() that runs has released the guard when it is
\* left, whether the level setup finished or threw.
C18_AsClaimed ==
    [][ \A fault \in RespawnFaults :
          RespawnCall(fault) =>
             IF pc.respawnInProgress
             THEN fsm' = fsm /\ cur' = cur /\ pc' = pc /\ body' = body
                  /\ track' = track
             ELSE ~pc'.respawnInProgress
      ]_vars

\* C20 as claimed: a failing frame pauses the game only when more than
\* five frames in a row have failed.
C20_AsClaimed ==
    [][ \A renderThrows \in BOOLEAN :
          (FrameFailed(renderThrows) /\ ~track.isPaused /\ track'.isPaused)
             => track'.failedInARow > maxFrameErrors
      ]_vars

\* a setState call that passes the three checks before the try block
C19_Accepted(name) ==
    /\ name \in STATES
    /\ name # fsm.key
    /\ fsm.key \in STATES => name \in validTransitions[fsm.key]

C19_WitnessExit ==
    /\ obs.call.fault = "exit" /\ obs.call.from = DEAD
    /\ obs.call.name = IDLE
    /\ ~obs.call.ret /\ fsm.key = IDLE

\* C23: a step that starts a run (level start, respawn, restart) leaves the
\* score at 0; any other step adds to the score the number of segments it
\* generated, which is 0 for an updateTrack over segments that exist
\* already; so during a run the score is the number of segments generated
\* since the run started and never goes down.
C23_ScoreCountsSegments ==
    [][ IF LevelReset
        THEN track'.score = 0
        ELSE /\ track'.score = track.score
                   + (IF obs'.gen.ran THEN Len(obs'.gen.indices) ELSE 0)
             /\ track'.score >= track.score
             /\ track'.running =>
                   track'.score = track'.high + 1 - segmentsToGenerateAhead
      ]_vars

\* The player has scored by running ahead and has then moved back over
\* segments that exist: updateTrack generated nothing.
C23_Witness ==
    /\ obs.gen.ran /\ obs.gen.lenBefore > 0
    /\ Len(obs.gen.indices) = 0
    /\ obs.gen.player < obs.gen.lenBefore - segmentsToGenerateAhead
    /\ track.score >= 2

(***************************************************************************)
(* Specification of takeDamage: the controller of a running level, hit     *)
(* with amounts that do and do not divide the health.                      *)
(***************************************************************************)
\* spikeDamage, and two amounts that take the health past 0
DamageAmounts == {spikeDamage, 40, 130}

\* playerController.takeDamage(amount)
TakeDamage(amount) ==
    /\ track.running
    /\ Commit([takeDamage(startOp(World), noInput, amount) EXCEPT
                  !.obs.hurt = [amount |-> amount, healthBefore |-> pc.health]])
    /\ UNCHANGED ticks

NextDamage ==
    \/ \E amount \in DamageAmounts : TakeDamage(amount)
    \/ \E in \in FixedInputs : FixedUpdate(in)
    \/ \E in \in DashInputs : ProcessImmediateDash(in)
    \/ LavaContact
    \/ Respawn
    \/ RestartLevel

SpecDamage == InitHazard /\ [][NextDamage]_vars

\* C24: the health is always between 0 and maxHealth; takeDamage on a live
\* player takes the amount off the health, stopping at 0, and leaves the FSM
\* in Dead when the health is 0 and as it was otherwise; takeDamage on a
\* dead player changes nothing.
C24_HealthInRange ==
    [][ /\ pc'.health \in 0 .. maxHealth
        /\ \A amount \in DamageAmounts :
              (obs'.hurt.amount = amount /\ TakeDamage(amount)) =>
                 IF fsm.key = DEAD
                 THEN fsm' = fsm /\ cur' = cur /\ pc' = pc /\ body' = body
                      /\ track' = track
                 ELSE /\ pc'.health = Max(0, pc.health - amount)
                      /\ pc'.health = 0 => fsm'.key = DEAD
                      /\ pc'.health > 0 => fsm' = fsm
      ]_vars

\* A player with less health left than the damage was hit: the health
\* stopped at 0 and the player is dead.
C24_Witness ==
    /\ obs.hurt.amount > obs.hurt.healthBefore
    /\ obs.hurt.healthBefore \in 1 .. (maxHealth - 1)
    /\ pc.health = 0
    /\ fsm.key = DEAD
    /\ fsm.historyLast = DEAD

(***************************************************************************)
(* The frame loop: animate(), the key events that arrive between frames,   *)
(* pause and resume.  Time is counted in quarters of a physics step.       *)
(***************************************************************************)
\* CONFIG.physics.timestep, 1/60 s
timestep == 4

\* Math.min(dt, 0.1)
maxFrameTime == 24

\* _onKeyDown, for an event that is not a repeat
onKeyDown(t, code) ==
    IF code \in t.inputManager.keys THEN t
    ELSE [t EXCEPT !.inputManager.keys = @ \cup {code},
                   !.inputManager.keysPressedThisFrame = @ \cup {code},
                   !.inputManager.pausedPresses =
                       IF t.isPaused THEN @ \cup {code} ELSE @ \ {code}]

\* _onKeyUp
onKeyUp(t, code) == [t EXCEPT !.inputManager.keys = @ \ {code}]

\* endFrameUpdate()
endFrameUpdate(t) ==
    [t EXCEPT !.inputManager.keysPressedThisFrame = {},
              !.inputManager.pausedPresses = {}]

\* What the controller reads from the input manager in a tick of the frame
\* fr: wasPressed('KeyQ'), keys['Space'], and the physics outcome sampled
\* for the frame.
inputOf(t, fr) ==
    [noInput EXCEPT !.ground = fr.ground, !.vy = fr.vy,
                    !.q = "KeyQ" \in t.inputManager.keysPressedThisFrame,
                    !.space = "Space" \in t.inputManager.keys]

\* One pass of the fixed timestep loop: world.step(), fixedUpdate(step),
\* checkDamageAndScore(step).
\* The dashes a performDash() call between the worlds before and after
\* started: the call passed the energy test and setState(DASH) was allowed.
dashesStarted(before, after) ==
    IF /\ after.obs.dashCalled /\ after.obs.insufficientDash = 0
       /\ DASH \in validTransitions[before.fsm.key]
    THEN 1 ELSE 0

fixedStep(w, fr) ==
    CHOOSE w3 \in
        { [checkDamageAndScore(w2, fr.hit, fr.hit) EXCEPT
              !.obs.frame.dashes = w.obs.frame.dashes + dashesStarted(w, w2)] :
             w2 \in { fixedUpdate(w1, inputOf(w1.track, fr)) :
                         w1 \in {[w EXCEPT !.track.platform = stepPlatform(@)]} } } : TRUE

RECURSIVE fixedSteps(_, _, _)
fixedSteps(w, n, fr) ==
    IF n = 0 THEN w
    ELSE CHOOSE wn \in { fixedSteps(w1, n - 1, fr) : w1 \in {fixedStep(w, fr)} } : TRUE

updateRisingLavaAtBaseSpeed(t, dt) ==
    [t EXCEPT !.currentLavaHeight = @ + riseSpeed * dt]

\* updateRisingLava(dt)
updateRisingLava(t, dt) ==
    [t EXCEPT !.currentLavaHeight = @ + t.risingLavaSpeed * dt,
              !.risingLavaSpeed = @ + dt]

\* The player's bottom over the rising lava, in the units of the lava
\* height; fr.bottom is the bottom over CONFIG.lava.surfaceY in hundredths
\* of a unit, and surfaceY is START_HEIGHT.
overRisingLava(t, fr) == fr.bottom * 11520 - (t.currentLavaHeight - startHeight)

\* animate(), a frame that runs to its end, from the point where clampedDt
\* has its value.  fr: the time since the last frame, the physics outcome,
\* whether the player overlaps the spike zone, the player's bottom over the
\* lava and what the nearest-segment search finds.
afterFixedSteps(w2, fr, clampedDt, steps, seen) ==
    LET w3 == IF w2.fsm.key # DEAD THEN lavaContact(w2, fr.bottom) ELSE w2
        w4 == IF w3.track.risingLavaActive
              THEN LET w31 == [w3 EXCEPT
                                 !.track = updateRisingLava(@, clampedDt)]
                   IN  risingLavaCollision(w31, overRisingLava(w31.track, fr))
              ELSE w3
        w5 == IF steps = 0
              THEN processImmediateDash(w4, inputOf(w4.track, fr))
              ELSE w4
        dashes == w2.obs.frame.dashes
                     + (IF steps = 0 THEN dashesStarted(w4, w5) ELSE 0)
        moving == w5.track.platform.moveType # "Static"
    IN  CHOOSE w7 \in
            { [w6 EXCEPT
                 !.track = [endFrameUpdate(w6.track) EXCEPT
                               !.frames = @ + 1,
                               !.motionAdvances = @ + (IF moving THEN 1 ELSE 0)],
                 !.obs.frame = [seen EXCEPT !.steps = steps, !.advanced = moving,
                                            !.clampedDt = clampedDt,
                                            !.dashes = dashes,
                                            !.lavaDeath = w2.fsm.key # DEAD
                                                          /\ w4.fsm.key = DEAD]] :
                 w6 \in {updateTrack(w5, fr.nearest)} } : TRUE

animateFrame(w, fr, clampedDt) ==
    LET w0 == startOp(w)
        seen == [noFrame EXCEPT
                    !.ran = TRUE, !.from = w.fsm.key,
                    !.accBefore = w.track.accumulator,
                    !.leftover = "KeyQ" \in w.track.inputManager.pausedPresses]
    IN  IF ~w0.track.running THEN w0
        ELSE IF w0.track.isPaused
        THEN [w0 EXCEPT !.obs.frame = [seen EXCEPT !.paused = TRUE]]
        ELSE
        LET w1 == [w0 EXCEPT !.track = updateCrumblePlatforms(@, {})]
            acc == w1.track.accumulator + clampedDt
            steps == acc \div timestep
        IN  \* the world after the accumulator loop is computed once
            CHOOSE w7 \in
                { afterFixedSteps([w2 EXCEPT
                                      !.track.accumulator = acc - steps * timestep],
                                  fr, clampedDt, steps, seen) :
                     w2 \in {fixedSteps(w1, steps, fr)} } : TRUE

animateUnclamped(w, fr) == animateFrame(w, fr, fr.dt)

\* const clampedDt = Math.min(dt, 0.1)
animate(w, fr) == animateFrame(w, fr, Min(fr.dt, maxFrameTime))

(***************************************************************************)
(* Specification of the frame loop: a level with a moving platform or the  *)
(* rising-lava level has just been started; frames of several lengths,     *)
(* key events, pause, resume, respawn and restart follow in any order.     *)
(***************************************************************************)
MaxFrames == 2

\* The dash key; Space is never down.
KeyCodes == {"KeyQ"}

\* Frame times: a quarter of a step, one step, two steps and three
\* quarters, and more than the clamp lets through.
FrameTimes == {1, 4, 11, 30}

\* The player in the air well over the lava, on the ground well over the
\* lava, and in the air at the lava surface.
Frames ==
    { [dt |-> dt, ground |-> g, vy |-> R(-6), hit |-> FALSE, bottom |-> b,
       nearest |-> -1] :
        dt \in FrameTimes,
        g \in { [hit |-> FALSE, falling |-> FALSE, relSmall |-> FALSE],
                [hit |-> TRUE,  falling |-> FALSE, relSmall |-> FALSE] },
        b \in {600} }
    \cup
    { [dt |-> dt, ground |-> [hit |-> FALSE, falling |-> FALSE, relSmall |-> FALSE],
       vy |-> R(-6), hit |-> FALSE, bottom |-> 0, nearest |-> -1] :
        dt \in {4} }

Animate(fr) ==
    /\ track.running
    /\ track.frames < MaxFrames
    /\ Commit(animate(World, fr))
    /\ ticks' = ticks + obs'.frame.steps

KeyDown(code) ==
    /\ track.running
    /\ Commit([startOp(World) EXCEPT !.track = onKeyDown(@, code)])
    /\ UNCHANGED ticks

KeyUp(code) ==
    /\ track.running
    /\ Commit([startOp(World) EXCEPT !.track = onKeyUp(@, code)])
    /\ UNCHANGED ticks

PauseGame ==
    /\ track.running
    /\ Commit([startOp(World) EXCEPT !.track = pauseGame(@)])
    /\ UNCHANGED ticks

StartRisingLavaLevel ==
    /\ track.running
    /\ Commit(startRisingLavaLevel(World))
    /\ UNCHANGED ticks

NextLoop ==
    \/ \E fr \in Frames : Animate(fr)
    \/ \E code \in KeyCodes : KeyDown(code)
    \/ \E code \in KeyCodes : KeyUp(code)
    \/ PauseGame
    \/ ResumeGame
    \/ Respawn
    \/ RestartLevel
    \/ StartRisingLavaLevel

InitLoop ==
    /\ fsm = [key |-> IDLE, historyLen |-> maxHistory, historyLast |-> IDLE]
    /\ cur = freshCur
    /\ pc = [newController EXCEPT !.isGrounded = TRUE,
                                  !.groundTime = GroundTimeCap]
    /\ body = zeroVel
    /\ obs = noObs
    /\ track = startTranslateLevel(
                   [track |-> newTrack, fsm |-> newFSM, cur |-> freshCur,
                    pc |-> newController, body |-> zeroVel, obs |-> noObs],
                   spawnPlatform("TranslateX", [x |-> 0, y |-> 0], 1,
                                 <<60, 36>>, 3, 0, 0)).track
    /\ ticks = 0

SpecLoop == InitLoop /\ [][NextLoop]_vars

\* C21: a frame that finds the game paused runs no fixed tick and leaves the
\* accumulator, the FSM state, the energy, the health, the velocity, the
\* track and the lava height as they were; a key press that arrived while
\* the game was paused starts no dash, in a paused frame or in a frame
\* after the resume.
C21_AsClaimed ==
    [][ /\ (obs'.frame.ran /\ obs'.frame.paused) =>
              /\ obs'.frame.steps = 0 /\ ticks' = ticks
              /\ fsm' = fsm /\ cur' = cur /\ pc' = pc /\ body' = body
              /\ track' = track
        /\ (obs'.frame.ran /\ obs'.frame.leftover /\ fsm.key # DASH) =>
              /\ fsm'.key # DASH
              /\ pc'.sprint >= pc.sprint
      ]_vars

\* The steps that start a run: each sets the level up again.
C22_RunStart ==
    /\ obs'.gen.ran /\ obs'.gen.lenBefore = 0
    /\ StartRisingLavaLevel \/ Respawn \/ RestartLevel

\* C22: on the rising-lava level an unpaused frame raises the lava by
\* speed * dt and the speed by 0.05 * dt, with dt >= 0 and speed > 0, so the
\* height never goes down during a run; every run start (level start,
\* respawn, restart) puts the height at START_HEIGHT and the speed at
\* RISE_SPEED of the configuration, which no step changes; no other step
\* touches the height or the speed.
C22_LavaRises ==
    [][ /\ track.risingLavaSpeed >= riseSpeed /\ riseSpeed > 0
        /\ track.currentLavaHeight >= startHeight
        /\ IF C22_RunStart
           THEN /\ track'.currentLavaHeight = startHeight
                /\ track'.risingLavaLevel =>
                      /\ track'.risingLavaSpeed = riseSpeed
                      /\ track'.risingLavaActive
           ELSE IF obs'.frame.ran /\ ~obs'.frame.paused /\ track.risingLavaActive
           THEN /\ obs'.frame.clampedDt >= 0
                /\ track'.currentLavaHeight =
                      track.currentLavaHeight
                         + track.risingLavaSpeed * obs'.frame.clampedDt
                /\ track'.risingLavaSpeed =
                      track.risingLavaSpeed + obs'.frame.clampedDt
                /\ track'.currentLavaHeight >= track.currentLavaHeight
           ELSE /\ track'.currentLavaHeight = track.currentLavaHeight
                /\ track'.risingLavaSpeed = track.risingLavaSpeed
      ]_vars

\* The lava has risen through two frames, the second longer than the clamp
\* lets through, and is faster than it started.
C22_Witness ==
    /\ obs.frame.ran /\ obs.frame.clampedDt = maxFrameTime
    /\ track.risingLavaActive
    /\ track.frames = 2
    /\ track.risingLavaSpeed > riseSpeed + maxFrameTime
    /\ track.currentLavaHeight > startHeight + riseSpeed * maxFrameTime

\* The most fixed ticks a frame can run: the accumulator starts below one
\* step and grows by at most the clamp.
C25_MaxSteps == (maxFrameTime + timestep - 1) \div timestep

C26_AsClaimed ==
    [][ (obs'.frame.ran /\ ~obs'.frame.paused
            /\ track.platform.moveType # "Static") =>
           /\ track'.motionAdvances - track.motionAdvances = obs'.frame.steps
           /\ obs'.frame.steps = 0 => track'.platform.mesh = track.platform.mesh
      ]_vars

\* C27: a performDash call with less than minDashEnergy changes neither the
\* energy nor the FSM and raises the insufficient-energy signal; a call
\* with at least minDashEnergy from Idle, Walk, Leap or Fall takes all the
\* energy, enters Dash, and the dash uses the energy the player had, kept
\* within [minDashEnergy, maxSprint].
C27_DashTakesAllEnergy ==
    [][ (obs'.dashCalled /\ fsm.key \in {IDLE, WALK, LEAP, FALL}) =>
           IF pc.sprint < minDashEnergy
           THEN /\ obs'.insufficientDash = 1
                /\ fsm'.key # DASH
                /\ ticks' = ticks =>
                      fsm' = fsm /\ pc' = pc /\ body' = body /\ cur' = cur
                /\ ticks' # ticks => pc'.sprint >= pc.sprint
           ELSE /\ obs'.insufficientDash = 0
                /\ pc'.sprint = 0
                /\ fsm'.key = DASH
                /\ cur'.staminaUsed = Max(minDashEnergy, Min(pc.sprint, maxSprint))
                /\ cur'.staminaUsed = pc.sprint
      ]_vars

\* A dash was started in the air with the full energy.
C27_Witness ==
    /\ obs.dashCalled
    /\ fsm.key = DASH
    /\ ~pc.isGrounded
    /\ pc.sprint = 0
    /\ cur.staminaUsed = maxSprint

\* A dash was asked for in the air with too little energy.
C27_WitnessRefused ==
    /\ obs.dashCalled
    /\ obs.insufficientDash = 1
    /\ fsm.key \in {LEAP, FALL}
    /\ pc.sprint < minDashEnergy

(***************************************************************************)
(* Specification of the controller with dashes and charges that run to     *)
(* their end: animate() keeps running the fixed update while the game runs *)
(* unpaused, which is the fairness condition.  ticks is counted up to      *)
(* MaxLiveTicks; past it only the updates of a dash or a charge in         *)
(* progress are followed.                                                  *)
(***************************************************************************)
MaxLiveTicks == 1

\* Space is never down: no charge begins.
DashLiveInputs ==
    { in \in [ground : { [hit |-> FALSE, falling |-> FALSE, relSmall |-> FALSE],
                         [hit |-> TRUE,  falling |-> FALSE, relSmall |-> FALSE] },
              space : {FALSE}, q : BOOLEAN, move : MoveSamples,
              vy : VertSamples, mvx : HorizSamples,
              platformVy : PlatformVySamples] : TRUE }

\* Q is never pressed: no dash begins.
ChargeLiveInputs ==
    { in \in [ground : { [hit |-> FALSE, falling |-> FALSE, relSmall |-> FALSE],
                         [hit |-> TRUE,  falling |-> FALSE, relSmall |-> FALSE] },
              space : BOOLEAN, q : {FALSE}, move : {"none"},
              vy : {R(-6)}, mvx : HorizSamples,
              platformVy : PlatformVySamples] : TRUE }

\* animate() -> fixedUpdate(step)
LiveUpdate(in) ==
    /\ track.running
    /\ ticks < MaxLiveTicks \/ fsm.key \in {DASH, CHARGE}
    /\ \E w \in {fixedUpdate(World, in)} : Commit(w)
    /\ ticks' = Min(ticks + 1, MaxLiveTicks)

DashTick == \E in \in DashLiveInputs : LiveUpdate(in)

\* A player who has left the ground stays in the air.
ChargeTick ==
    \E in \in ChargeLiveInputs :
        /\ in.ground.hit => pc.isGrounded
        /\ LiveUpdate(in)

NextDash ==
    \/ DashTick
    \/ LavaContact
    \/ Respawn

NextCharge ==
    \/ ChargeTick
    \/ LavaContact

SpecDash == InitHazard /\ [][NextDash]_vars /\ WF_vars(DashTick)

\* Energy at the start of a charge that is in progress and the number of
\* ticks Space has been held: a tap from exactly the quick-jump cost, a
\* charge about to exhaust the energy, and one far enough from
\* maxChargeTime for the coyote time to run out before it.
LiveChargingSamples == {<<30, 3>>, <<33, 6>>, <<600, 70>>}

\* A run in progress: charging on stable ground.
InitCharge ==
    /\ fsm = [key |-> CHARGE, historyLen |-> maxHistory, historyLast |-> CHARGE]
    /\ \E c \in LiveChargingSamples :
          /\ cur = [freshCur EXCEPT !.chargeTime = c[2],
                                    !.energyConsumed = c[2] * staminaDrainPerTick,
                                    !.startEnergy = c[1],
                                    !.maxPossibleEnergy = Min(c[1], maxChargeDrain),
                                    !.startedGrounded = TRUE]
          /\ pc = [newController EXCEPT
                      !.sprint = c[1] - c[2] * staminaDrainPerTick,
                      !.sinceConsume = 1,
                      !.isGrounded = TRUE, !.groundTime = GroundTimeCap]
    /\ body = zeroVel
    /\ obs = [noObs EXCEPT !.tap = [held |-> TRUE, signals |-> 0]]
    /\ track = startedTrack
    /\ ticks = 0

SpecCharge == InitCharge /\ [][NextCharge]_vars /\ WF_vars(ChargeTick)

\* In SpecDash and SpecCharge a step that is neither a respawn nor a death
\* is a fixed update.
LiveStep == ~obs'.respawn.ran /\ fsm'.key # DEAD

\* C28: a dash never lasts longer than its fixed duration: the tick in
\* which the dash timer reaches it takes the FSM to Leap or Fall when the
\* player is in the air (by the sign of the vertical velocity) and to Walk
\* or Idle when on the ground (by the movement keys held), and no earlier
\* tick leaves Dash; every key the FSM has after Dash is one that the
\* transition table allows from Dash; and a dash in progress always ends.
C28_DashEnds ==
    /\ [][ /\ fsm'.key = DASH => cur'.dashTimer < dashDurationTicks
           /\ (fsm.key = DASH /\ fsm'.key # DASH) =>
                 fsm'.key \in validTransitions[DASH]
           /\ (fsm.key = DASH /\ LiveStep) =>
                 IF cur.dashTimer + 1 < dashDurationTicks
                 THEN fsm'.key = DASH /\ cur'.dashTimer = cur.dashTimer + 1
                 ELSE /\ fsm'.key \in {LEAP, FALL, WALK, IDLE}
                      /\ fsm'.key \in {LEAP, FALL} <=> ~pc'.isGrounded
                      /\ fsm'.key = LEAP => RLess(R(0), body'.y)
                      /\ fsm'.key = FALL => ~RLess(R(0), body'.y)
         ]_vars
    /\ (fsm.key = DASH) ~> (fsm.key # DASH)

\* A dash ran its full duration in the air and ended rising, in Leap.
C28_Witness ==
    /\ fsm.key = LEAP
    /\ fsm.historyLast = LEAP
    /\ pc.sprint = 0
    /\ ~pc.isGrounded
    /\ RLess(R(0), body.y)

\* C29: a charge in progress always ends.  Between ticks a charge has
\* energy left and has lasted less than maxChargeTime; a tick with Space
\* held either drains and stays in Charge with both still true, or leaves
\* Charge; a tick with Space released leaves Charge; whatever ends the
\* charge, the FSM is then in Leap, Idle or Fall, or Dead when the player
\* died.
C29_ChargeEnds ==
    /\ [][ /\ fsm'.key = CHARGE =>
                 pc'.sprint > 0 /\ cur'.chargeTime < maxChargeTicks
           /\ (fsm.key = CHARGE /\ fsm'.key # CHARGE) =>
                 fsm'.key \in {LEAP, IDLE, FALL, DEAD}
           /\ (fsm.key = CHARGE /\ LiveStep) =>
                 /\ fsm'.key \in {CHARGE, LEAP, IDLE, FALL}
                 /\ ~obs'.tap.held => fsm'.key # CHARGE
                 /\ fsm'.key = CHARGE =>
                       /\ cur'.chargeTime = cur.chargeTime + 1
                       /\ pc'.sprint = pc.sprint - staminaDrainPerTick
         ]_vars
    /\ (fsm.key = CHARGE) ~> (fsm.key # CHARGE)

\* Space was held until maxChargeTime: the charge launched by itself with
\* energy left.
C29_Witness ==
    /\ fsm.key = LEAP
    /\ obs.tap.held
    /\ obs.launch.kind = "charged"
    /\ obs.launch.chargeTime = maxChargeTicks
    /\ pc.sprint > 0

\* Space was held until the energy was gone: the charge launched by itself
\* before maxChargeTime.
C29_WitnessDrained ==
    /\ fsm.key = LEAP
    /\ obs.tap.held
    /\ obs.launch.kind \notin {"none", "cancel"}
    /\ obs.launch.chargeTime < maxChargeTicks
    /\ obs.launch.energyConsumed = obs.launch.startEnergy

\* C30: a fixed update that finds a charge started on the ground with the
\* player in the air and the coyote time run out cancels the charge: the
\* energy is what it was when the charge started, everything the charge
\* drained being given back, and the FSM is in Fall; no other update of
\* such a charge cancels it.
C30_CancelRefundsAll ==
    [][ (fsm.key = CHARGE /\ cur.startedGrounded /\ LiveStep) =>
           LET expired == ~pc'.isGrounded /\ pc'.coyoteTime <= 0
           IN  /\ expired <=> obs'.launch.kind = "cancel"
               /\ expired =>
                     /\ fsm'.key = FALL
                     /\ pc'.sprint = cur.startEnergy
                     /\ pc'.sprint = pc.sprint + cur.energyConsumed
      ]_vars

\* A charge from full energy was cancelled in the air after it had drained
\* energy: the energy is full again.
C30_Witness ==
    /\ obs.launch.kind = "cancel"
    /\ fsm.key = FALL
    /\ obs.launch.energyConsumed > 0
    /\ obs.launch.startEnergy = maxSprint
    /\ pc.sprint = maxSprint
    /\ ~pc.isGrounded /\ pc.coyoteTime = 0

\* C31: a fixed update in which the regeneration raises the energy ends
\* with the player grounded, starts and ends in a state other than Charge
\* and Dash, and comes at least sprintRegenDelay (45 updates of 1/60 s)
\* after the last consumeStamina call; the regeneration adds at most
\* sprintRegenRate * dt and leaves the energy at most maxSprint; after a
\* consumeStamina call the regeneration timer of the controller is never
\* ahead of the time since the call.
C31_RegenOnlyAfterDelay ==
    [][ /\ obs'.regen >= 0
        /\ obs'.regen > 0 =>
              /\ pc'.isGrounded
              /\ fsm'.key \notin {CHARGE, DASH}
              /\ fsm.key \notin {CHARGE, DASH}
              /\ pc'.sinceConsume >= sprintRegenDelayTicks
              /\ obs'.regen <= sprintRegenPerTick
              /\ pc'.sprint <= maxSprint
        /\ pc'.sprintRegenTimer <= pc'.sinceConsume
      ]_vars

\* The regeneration has just raised the energy of a grounded player who had
\* used some.
C31_Witness ==
    /\ obs.regen > 0
    /\ pc.isGrounded
    /\ fsm.key \in {IDLE, WALK}
    /\ pc.sprint < maxSprint

\* A dash has just consumed energy that was regenerating: the delay runs
\* from zero again.
C31_WitnessRestart ==
    /\ fsm.key = DASH
    /\ obs.dashCalled
    /\ pc.sinceConsume = 0
    /\ pc.sprintRegenTimer = 0
    /\ pc.isGrounded

(***************************************************************************)
(* Specification of the segment objects and their hazard zones: the        *)
(* 'chaotic' level is started, the track follows the player, zone objects  *)
(* are checked for damage, and the run is reset by respawn and restart.    *)
(* The outcomes Math.random() has for the spike rows are drawn when the    *)
(* level is started and kept in track.spikeRolls.                          *)
(***************************************************************************)
MaxZoneIndex == 14
MaxZones == 4
MaxZoneChecks == 1

\* Spikes on no segment and on some.
RollSamples == { {}, {3, 4, 9} }

Rolled(rolls) == [World EXCEPT !.track.spikeRolls = rolls]

StartChaoticLevel(rolls) ==
    /\ fsm.key # NoState
    /\ Len(track.zones) < MaxZones
    /\ Commit(startChaoticLevel(Rolled(rolls)))
    /\ UNCHANGED ticks

UpdateTrackBounded(nearest) ==
    /\ track.running
    /\ track.high < MaxZoneIndex
    /\ Len(track.zones) < MaxZones
    /\ Commit(updateTrack(startOp(World), nearest))
    /\ UNCHANGED ticks

\* checkDamageAndScore(step) -> _checkSegmentDamageZones, for the zone
\* object z
CheckSegmentZone(z, hit) ==
    /\ track.running
    /\ ticks < MaxZoneChecks
    /\ Commit([checkDamageAndScore(startOp(World), zoneWalked(track, z), hit)
                  EXCEPT !.obs.zone = [id |-> z, hit |-> hit]])
    /\ ticks' = ticks + 1

RespawnBounded == Len(track.zones) < MaxZones /\ Respawn

RestartLevelBounded == Len(track.zones) < MaxZones /\ RestartLevel

NextZones ==
    \/ LoadModel
    \/ \E rolls \in RollSamples : StartChaoticLevel(rolls)
    \/ \E nearest \in {-1} \cup searchWindow(track) : UpdateTrackBounded(nearest)
    \/ \E z \in DOMAIN track.zones, hit \in BOOLEAN : CheckSegmentZone(z, hit)
    \/ RespawnBounded
    \/ RestartLevelBounded

SpecZones == InitConstructed /\ [][NextZones]_vars

\* C32: every zone whose segment went through despawnSegment is marked
\* removed and has no body reference; a damage check that applies damage
\* was made for a zone whose segment has not been despawned; no active
\* segment, reused or not, lists a zone of a despawned segment; and after an
\* updateTrack that despawned segments the run-wide zone list holds no zone
\* of a despawned segment.
C32_DespawnedZonesInert ==
    [][ /\ \A z \in DOMAIN track'.zones :
              track'.zones[z].despawned =>
                 track'.zones[z].removed /\ ~track'.zones[z].platformBody
        /\ obs'.damage > 0 =>
              /\ obs'.zone.id \in DOMAIN track.zones
              /\ ~track.zones[obs'.zone.id].despawned
        /\ \A i \in 1 .. Len(track'.segments) :
              \A z \in track'.segments[i].damageZones :
                 ~track'.zones[z].despawned
        /\ (obs'.gen.ran /\ obs'.gen.despawned > 0) =>
              \A k \in 1 .. Len(track'.damageZones) :
                 ~track'.zones[track'.damageZones[k]].despawned
      ]_vars

\* The player overlapped the spikes of a zone whose segment had been
\* despawned, while other zones are live: the check applied no damage.
C32_Witness ==
    /\ obs.zone.id \in DOMAIN track.zones
    /\ obs.zone.hit
    /\ track.zones[obs.zone.id].despawned
    /\ obs.damage = 0
    /\ fsm.key # DEAD
    /\ \E k \in 1 .. Len(track.damageZones) :
          ~track.zones[track.damageZones[k]].removed

\* The track moved on and left the spikes behind: the compaction pruned
\* their zone objects from the run-wide list.
C32_WitnessCompacted ==
    /\ obs.gen.ran /\ obs.gen.despawned > 0
    /\ \E z \in DOMAIN track.zones : track.zones[z].despawned
    /\ Len(track.damageZones) > 0

\* C33: every segment object in the pool has the field values of a freshly
\* created one, and a segment object on the track carries hinge data only
\* if the segment it was placed as is a teeter platform.
C33_AsClaimed ==
    /\ \A i \in 1 .. Len(track.pool) :
          track.pool[i] = [blankSegment EXCEPT !.id = track.pool[i].id]
    /\ \A i \in 1 .. Len(track.segments) :
          track.segments[i].tiltType # "none" => track.segments[i].dynamic

\* The frame of the step observes a dash key press made during play: the
\* frame is not paused, KeyQ is among the presses it finds and was not
\* pressed while the game was paused, the FSM is in Idle, Walk, Leap or Fall
\* and the energy is at least minDashEnergy.
C34_PressObserved ==
    /\ obs'.frame.ran /\ ~obs'.frame.paused /\ ~obs'.frame.leftover
    /\ "KeyQ" \in track.inputManager.keysPressedThisFrame
    /\ fsm.key \in {IDLE, WALK, LEAP, FALL}
    /\ pc.sprint >= minDashEnergy

C34_WitnessNoTick ==
    /\ obs.frame.ran /\ obs.frame.steps = 0 /\ obs.frame.dashes = 1
    /\ fsm.key = DASH /\ cur.dashTimer = 0

PerformDashCall(in) ==
    /\ track.running
    /\ fsm.key # NoState
    /\ Commit(performDash(startOp(World), in))
    /\ UNCHANGED ticks

NextMutator ==
    \/ \E in \in DashInputs : PerformDashCall(in)
    \/ \E in \in FixedInputs : FixedUpdate(in)
    \/ LavaContact
    \/ Respawn

SpecMutator == Init /\ [][NextMutator]_vars

\* C35 as stated: a step in which performDash is called and the energy goes
\* down is a step in which the FSM enters Dash, whatever the state the call
\* is made in.
C35_AsClaimed ==
    [][ (obs'.dashCalled /\ pc'.sprint < pc.sprint) =>
           (fsm.key # DASH /\ fsm'.key = DASH)
      ]_vars

(***************************************************************************)
(* Specification of a life: fixed updates, frames whose tick finds the     *)
(* player over several spike zones and whose lava checks find the player   *)
(* at the lava, respawns and restarts.                                     *)
(***************************************************************************)
MaxZonesHit == 3

\* _checkSegmentDamageZones over n zones that the player overlaps and whose
\* cooldown has run out: each zone is skipped once the player is dead.
RECURSIVE spikeZonesHit(_, _)
spikeZonesHit(w, n) ==
    IF n = 0 THEN w
    ELSE LET w1 == spikeZonesHit(w, n - 1)
         IN  IF w1.fsm.key = DEAD THEN w1
             ELSE [takeDamage(w1, noInput, spikeDamage) EXCEPT
                      !.obs.damage = @ + 1]

\* animate(), the hazard checks of a frame with one tick: the spike zones
\* in checkDamageAndScore, then the lava contact check, then
\* checkRisingLavaCollision.
hazardChecks(w, n, bottom, rising) ==
    LET w1 == spikeZonesHit(startOp(w), n)
        w2 == IF w1.fsm.key # DEAD THEN lavaContact(w1, bottom) ELSE w1
        w3 == risingLavaCollision(w2, rising)
    IN  [w3 EXCEPT !.obs.hazards = [zones |-> n, lava |-> bottom <= lavaTolerance,
                                    rising |-> rising <= 0]]

HazardChecks(n, bottom, rising) ==
    /\ track.running
    /\ Commit(hazardChecks(World, n, bottom, rising))
    /\ UNCHANGED ticks

NextLife ==
    \/ \E n \in 0 .. MaxZonesHit, bottom \in {0, 600}, rising \in {0, 1} :
          HazardChecks(n, bottom, rising)
    \/ \E in \in FixedInputs : FixedUpdate(in)
    \/ Respawn
    \/ RestartLevel

SpecLife == InitHazard /\ [][NextLife]_vars

\* C36: die() is called at most once between two respawns (or restarts),
\* and the call is the one step of the life in which the FSM enters Dead:
\* a dead player stays dead until a respawn or a restart, and the hazard
\* checks of a tick or frame that find several contacts call die() once.
C36_OneDeathPerLife ==
    [][ /\ pc'.deaths <= 1
        /\ (fsm'.key = DEAD) = (pc'.deaths = 1)
        /\ (fsm'.key = DEAD /\ fsm.key # DEAD) => (pc.deaths = 0)
        /\ (fsm.key = DEAD /\ fsm'.key # DEAD) =>
              (obs'.respawn.ran \/ RestartLevel)
      ]_vars

\* One frame found two spike zones, the lava and the rising lava at the
\* player, whose health the first zone took to 0.
C36_Witness ==
    /\ obs.hazards.zones >= 2 /\ obs.hazards.lava /\ obs.hazards.rising
    /\ obs.damage = 1
    /\ fsm.key = DEAD /\ pc.deaths = 1 /\ pc.health = 0

\* One frame found the lava and the rising lava at a player in full health.
C36_WitnessLava ==
    /\ obs.hazards.zones = 0 /\ obs.hazards.lava /\ obs.hazards.rising
    /\ fsm.key = DEAD /\ pc.deaths = 1 /\ pc.health = maxHealth

\* C37: when updateTrack has run, the player's segment index is a position
\* of the active list and is at most segmentsToKeepBehind, and the active
\* list holds at least one segment and at most segmentsToKeepBehind +
\* segmentsToGenerateAhead, wherever the search found the player.
C37_IndexWithinTrack ==
    obs.gen.ran =>
       /\ 0 <= track.playerSegmentIndex
       /\ track.playerSegmentIndex < Len(track.segments)
       /\ track.playerSegmentIndex <= segmentsToKeepBehind
       /\ Len(track.segments) <= segmentsToKeepBehind + segmentsToGenerateAhead
       /\ Len(track.segments) # 0

\* The search found the player at the far end of its window: the track was
\* extended and pruned to its largest size.
C37_Witness ==
    /\ obs.gen.ran
    /\ obs.gen.player = segmentsToKeepBehind + 3
    /\ obs.gen.despawned = 3
    /\ track.playerSegmentIndex = segmentsToKeepBehind
    /\ Len(track.segments) = segmentsToKeepBehind + segmentsToGenerateAhead

\* The player has gone back along a track of the largest size: nothing was
\* generated or pruned.
C37_WitnessBack ==
    /\ obs.gen.ran
    /\ obs.gen.lenBefore = segmentsToKeepBehind + segmentsToGenerateAhead
    /\ track.playerSegmentIndex = 1
    /\ Len(track.segments) = segmentsToKeepBehind + segmentsToGenerateAhead

(***************************************************************************)
(* Specification of the crumble platforms under pause: a crumble level is  *)
(* started, the player lands on segments while the game is not paused, the *)
(* game is paused and resumed, and the browser runs the crumble timeouts   *)
(* whenever they are due.                                                  *)
(***************************************************************************)
NextCrumblePause ==
    \/ LoadModel
    \/ StartCrumbleLevel
    \/ \E nearest \in {-1} \cup searchWindow(track) :
          ~track.isPaused /\ UpdateTrack(nearest)
    \/ \E i \in searchWindow(track) : ~track.isPaused /\ GroundMatched(i + 1)
    \/ \E i \in 1 .. Len(track.segments) :
          ~track.isPaused /\ UpdateCrumblePlatforms({i})
    \/ \E index \in track.crumbleTimers : CrumbleTimeout(index)
    \/ PauseGame
    \/ ResumeGame

SpecCrumblePause == InitConstructed /\ [][NextCrumblePause]_vars

\* C38 as stated: in a step that begins and ends with the game paused, a
\* crumble platform that is in Warning does not turn Falling and its body
\* does not become dynamic.
C38_AsClaimed ==
    [][ (track.isPaused /\ track'.isPaused) =>
           \A i \in 1 .. Len(track.segments) :
              LET j == positionOf(track', track.segments[i].index)
              IN  (track.segments[i].crumbleState = WARNING /\ j # 0) =>
                     /\ track'.segments[j].crumbleState # FALLING
                     /\ ~track'.segments[j].dynamic
      ]_vars

(***************************************************************************)
(* Specification of the controller on foot: animate() keeps running the    *)
(* fixed update while the game runs unpaused, which is the fairness        *)
(* condition.  Neither Space nor Q is pressed, and a player who has left   *)
(* the ground stays in the air.  ticks is counted up to MaxLiveTicks.      *)
(***************************************************************************)
OnFootInputs ==
    { in \in [ground : { [hit |-> FALSE, falling |-> FALSE, relSmall |-> FALSE],
                         [hit |-> TRUE,  falling |-> FALSE, relSmall |-> FALSE] },
              space : {FALSE}, q : {FALSE}, move : MoveSamples,
              vy : VertSamples, mvx : HorizSamples,
              platformVy : PlatformVySamples] : TRUE }

\* animate() -> fixedUpdate(step)
OnFootTick ==
    \E in \in OnFootInputs :
        /\ track.running
        /\ in.ground.hit => pc.isGrounded
        /\ \E w \in {fixedUpdate(World, in)} : Commit(w)
        /\ ticks' = Min(ticks + 1, MaxLiveTicks)

NextOnFoot ==
    \/ OnFootTick
    \/ Respawn

SpecOnFoot == InitHazard /\ [][NextOnFoot]_vars /\ WF_vars(OnFootTick)

\* C39 as stated: a player who is in the air with the FSM in Idle or Walk
\* is later in Fall.
C39_AsClaimed ==
    (fsm.key \in {IDLE, WALK} /\ ~pc.isGrounded) ~> (fsm.key = FALL)

\* C40: no segment object is at once in the pool and on the track, none is
\* twice in the pool or twice on the track, and the pool holds at most
\* maxPoolSize objects, whatever updates, level starts, respawns and
\* restarts have run.
C40_PoolApartFromTrack ==
    /\ \A i \in 1 .. Len(track.pool), j \in 1 .. Len(track.segments) :
          track.pool[i].id # track.segments[j].id
    /\ \A i, j \in 1 .. Len(track.pool) :
          track.pool[i].id = track.pool[j].id => i = j
    /\ \A i, j \in 1 .. Len(track.segments) :
          track.segments[i].id = track.segments[j].id => i = j
    /\ Len(track.pool) <= maxPoolSize

\* Segments pruned behind the player went to the pool and some of them were
\* handed out again further on, while others are still pooled.
C40_Witness ==
    /\ obs.gen.ran
    /\ obs.gen.despawned >= 1
    /\ Len(track.pool) >= 2
    /\ track.created < track.high + 1
    /\ Len(track.segments) = segmentsToKeepBehind + segmentsToGenerateAhead

\* A reset has sent every active segment to the pool and the level start
\* after it has taken segments back out of it.
C40_WitnessReset ==
    /\ obs.gen.ran /\ obs.gen.lenBefore = 0
    /\ Len(track.segments) = segmentsToGenerateAhead
    /\ Len(track.pool) >= 1
    /\ track.created > segmentsToGenerateAhead

=============================================================================
